---- MODULE Spec2Model ----
(***************************************************************************)
(* Doggy-daycare attendance core (src-tauri/src/lib.rs): the recurrence    *)
(* evaluator, the attendance materializer and the lock-guarded JSON        *)
(* document store.                                                         *)
(*                                                                         *)
(* Three specifications share this module:                                 *)
(*   EvalSpec  - should_generate_attendance applied to bounded inputs      *)
(*   MatSpec   - the document under sequences of commands (one command is  *)
(*               one locked read-modify-write cycle, taken atomically)     *)
(*   Spec      - the document store: concurrent command cycles, the global *)
(*               lock, the steps of write_app_data_to_disk, I/O failures   *)
(*               and process crashes                                       *)
(***************************************************************************)
EXTENDS Integers, Sequences, FiniteSets, TLC

(***************************************************************************)
(* Calendar: a NaiveDate is modelled by its day number, counted from       *)
(* 1970-01-01 (day 0, a Thursday).                                         *)
(***************************************************************************)

\* chrono NaiveDate -> (year, month, day), proleptic Gregorian calendar
Civil(z) ==
    LET zz  == z + 719468
        era == zz \div 146097
        doe == zz - era * 146097
        yoe == (doe - doe \div 1460 + doe \div 36524 - doe \div 146096) \div 365
        doy == doe - (365 * yoe + yoe \div 4 - yoe \div 100)
        mp  == (5 * doy + 2) \div 153
        d   == doy - (153 * mp + 2) \div 5 + 1
        m   == IF mp < 10 THEN mp + 3 ELSE mp - 9
        y   == yoe + era * 400 + (IF m <= 2 THEN 1 ELSE 0)
    IN  [year |-> y, month |-> m, day |-> d]

\* (year, month, day) -> NaiveDate
FromCivil(y, m, d) ==
    LET yy  == IF m <= 2 THEN y - 1 ELSE y
        era == yy \div 400
        yoe == yy - era * 400
        mp  == IF m > 2 THEN m - 3 ELSE m + 9
        doy == (153 * mp + 2) \div 5 + d - 1
        doe == yoe * 365 + yoe \div 4 - yoe \div 100 + doy
    IN  era * 146097 + doe - 719468

\* NaiveDate::day()
DayOf(date) == Civil(date).day

\* NaiveDate::with_day(1).unwrap()
WithDay1(date) == date - (DayOf(date) - 1)

\* NaiveDate::succ_opt() / pred_opt() (never None inside the modelled window)
SuccOpt(date) == date + 1
PredOpt(date) == date - 1

\* mutant: Weekday::num_days_from_monday() (Monday = 0)
WeekdayFromMonday(date) == (date + 3) % 7

\* NaiveDate::weekday(), numbered as get_weekday_index numbers it (Sunday = 0)
get_weekday_index(date) == (date + 4) % 7

\* signed_duration_since(..).num_days()
NumDaysSince(date, start) == date - start

IsLeap(y) == (y % 4 = 0 /\ y % 100 # 0) \/ y % 400 = 0

\* calendar length of the month a date lies in (reference for the claims)
DaysInMonthOf(date) ==
    LET c == Civil(date)
    IN  IF c.month = 2 THEN (IF IsLeap(c.year) THEN 29 ELSE 28)
        ELSE IF c.month \in {4, 6, 9, 11} THEN 30 ELSE 31

Min(a, b) == IF a <= b THEN a ELSE b
Max(a, b) == IF a >= b THEN a ELSE b

(***************************************************************************)
(* RecurrencePattern and the recurrence evaluator                          *)
(***************************************************************************)
PNone     == [kind |-> "None",     days |-> {}]
PDaily    == [kind |-> "Daily",    days |-> {}]
PWeekly   == [kind |-> "Weekly",   days |-> {}]
PBiWeekly == [kind |-> "BiWeekly", days |-> {}]
PMonthly  == [kind |-> "Monthly",  days |-> {}]
PCustom(ds) == [kind |-> "Custom", days |-> ds]

BiWeeklyPeriod == 14

\* the Monthly arm's current_month_last_day, as the code computes it
CurrentMonthLastDay(current_date) ==
    DayOf(PredOpt(SuccOpt(WithDay1(current_date))))

\* the Monthly arm of should_generate_attendance
MonthlyOccurs(current_date, schedule_start) ==
    LET start_day  == DayOf(schedule_start)
        target_day == Min(start_day, CurrentMonthLastDay(current_date))
    IN  DayOf(current_date) = target_day

\* mutant: the BiWeekly arm without the 14-day interval test
BiWeeklyOccursEveryWeek(current_date, schedule_start) ==
    /\ get_weekday_index(current_date) = get_weekday_index(schedule_start)
    /\ NumDaysSince(current_date, schedule_start) >= 0

\* the BiWeekly arm of should_generate_attendance
BiWeeklyOccurs(current_date, schedule_start) ==
    IF get_weekday_index(current_date) = get_weekday_index(schedule_start)
    THEN LET days_since_start == NumDaysSince(current_date, schedule_start)
         IN  days_since_start >= 0 /\ days_since_start % BiWeeklyPeriod = 0
    ELSE FALSE

should_generate_attendance(current_date, schedule_start, pattern) ==
    CASE pattern.kind = "None"     -> FALSE
      [] pattern.kind = "Daily"    -> TRUE
      [] pattern.kind = "Weekly"   ->
            get_weekday_index(current_date) = get_weekday_index(schedule_start)
      [] pattern.kind = "BiWeekly" -> BiWeeklyOccurs(current_date, schedule_start)
      [] pattern.kind = "Monthly"  -> MonthlyOccurs(current_date, schedule_start)
      [] pattern.kind = "Custom"   -> get_weekday_index(current_date) \in pattern.days

(***************************************************************************)
(* Strings that carry dates.  A String is modelled by what parsing makes   *)
(* of it: a "%Y-%m-%d" text of a date, the empty string, or text that      *)
(* NaiveDate::parse_from_str rejects.  An Option<String> adds None.        *)
(***************************************************************************)
DateStr(date) == [t |-> "ymd",   d |-> date]   \* date.format("%Y-%m-%d").to_string()
BlankStr      == [t |-> "blank", d |-> 0]      \* ""
BadStr        == [t |-> "bad",   d |-> 0]      \* e.g. "tomorrow"
NoneStr       == [t |-> "none",  d |-> 0]      \* Option::None

\* NaiveDate::parse_from_str(s, "%Y-%m-%d")
ParseDate(s) == [ok |-> s.t = "ymd", date |-> s.d]

NoTime == "none"                               \* Option<String>::None

(***************************************************************************)
(* The document (AppData) and its parts                                    *)
(***************************************************************************)
ServiceTypes == {"Daycare", "Training", "Boarding"}

EmptyMap == << >>                              \* HashMap::new()

\* HashMap::insert / contains_key / remove on maps modelled as functions
MapInsert(map, k, v) == (k :> v) @@ map
MapHas(map, k) == k \in DOMAIN map
MapRemove(map, k) == [x \in DOMAIN map \ {k} |-> map[x]]

\* format!("{}_{:?}", dog_id, service_type)
entry_key(dog_id, service_type) == <<dog_id, service_type>>

\* the DayData built by or_insert_with
NewDayData ==
    [attendance |-> [dogs |-> EmptyMap, entries |-> EmptyMap, types |-> EmptyMap],
     records |-> EmptyMap, am_temp |-> NoTime, pm_temp |-> NoTime]

\* the DailyRecord built by or_insert_with
NewDailyRecord ==
    [checklist |-> "none", feeding_times |-> NoTime, drop_off_time |-> NoTime,
     pick_up_time |-> NoTime, notes |-> "none"]

\* default_whatsapp_templates()
default_whatsapp_templates == "whatsapp templates of the program"
\* the settings of AppData::default()
DefaultSettings ==
    [business_name |-> "Your Doggy Daycare", business_phone |-> "", auto_backup |-> TRUE,
     cloud_backup |-> NoTime, email_templates |-> "email templates of the program",
     email_subjects |-> "email subjects of the program",
     whatsapp_templates |-> default_whatsapp_templates]

\* AppData::default()
DefaultAppData ==
    [dogs |-> << >>, daily_data |-> EmptyMap, recurring_schedules |-> << >>,
     settings |-> DefaultSettings]

\* daily_data.entry(date_str).or_insert_with(..)
DayOrNew(data, date_str) ==
    IF MapHas(data.daily_data, date_str) THEN data.daily_data[date_str] ELSE NewDayData

(***************************************************************************)
(* Attendance materializer: generate_recurring_attendance_internal         *)
(***************************************************************************)
\* the AttendanceEntry the materializer builds for a schedule
AutoEntry(schedule) ==
    [dog_id |-> schedule.dog_id, service_type |-> schedule.service_type,
     attending |-> TRUE, drop_off_time |-> schedule.drop_off_time,
     pick_up_time |-> schedule.pick_up_time, notes |-> "Auto-scheduled"]

\* the daily-record update made for a Daycare schedule that carries a time
RecordWithTimes(day_data, schedule) ==
    LET dog == schedule.dog_id
        current_record == IF MapHas(day_data.records, dog)
                          THEN day_data.records[dog] ELSE NewDailyRecord
        with_drop == IF schedule.drop_off_time # NoTime
                     THEN [current_record EXCEPT !.drop_off_time = schedule.drop_off_time]
                     ELSE current_record
    IN  IF schedule.pick_up_time # NoTime
        THEN [with_drop EXCEPT !.pick_up_time = schedule.pick_up_time]
        ELSE with_drop

\* the body of "if !contains_key(&entry_key)": insert the entry, sync the legacy
\* map and the daily record
InsertOccurrence(day_data, schedule) ==
    LET key == entry_key(schedule.dog_id, schedule.service_type)
        d1 == [day_data EXCEPT
                 !.attendance.entries = MapInsert(@, key, AutoEntry(schedule))]
    IN  IF schedule.service_type # "Daycare"
        THEN d1
        ELSE LET d2 == [d1 EXCEPT
                          !.attendance.dogs = MapInsert(@, schedule.dog_id, TRUE)]
             IN  IF schedule.drop_off_time # NoTime \/ schedule.pick_up_time # NoTime
                 THEN [d2 EXCEPT !.records =
                         MapInsert(@, schedule.dog_id, RecordWithTimes(d2, schedule))]
                 ELSE d2

\* mutant: the contains_key guard is missing
MergeOccurrenceUnguarded(day_data, schedule) == InsertOccurrence(day_data, schedule)

\* mutant: an existing machine-generated entry is dropped for regeneration, and the
\* insert sits in the other branch
MergeOccurrenceRegenerating(day_data, schedule) ==
    LET key == entry_key(schedule.dog_id, schedule.service_type)
    IN  IF MapHas(day_data.attendance.entries, key)
        THEN IF day_data.attendance.entries[key].notes = "Auto-scheduled"
             THEN [day_data EXCEPT !.attendance.entries = MapRemove(@, key)]
             ELSE day_data
        ELSE InsertOccurrence(day_data, schedule)

\* the body of "if should_attend": merge one occurrence into the day's ledger
MergeOccurrence(day_data, schedule) ==
    IF MapHas(day_data.attendance.entries,
              entry_key(schedule.dog_id, schedule.service_type))
    THEN day_data
    ELSE InsertOccurrence(day_data, schedule)

\* mutant: the schedule's end date is never tested
AfterScheduleEndIgnored(current_date, schedule_end) == FALSE

\* "if current_date > schedule_end { continue; }"
AfterScheduleEnd(current_date, schedule_end) == current_date > schedule_end

\* mutant: both dates of an active schedule are parsed before any comparison
ScheduleStepEagerParse(data, current_date, schedule) ==
    IF ~schedule.active THEN [ok |-> TRUE, data |-> data]
    ELSE
    LET ps == ParseDate(schedule.start_date)
        has_end == schedule.end_date.t \notin {"none", "blank"}
        pe == ParseDate(schedule.end_date)
    IN  IF ~ps.ok \/ (has_end /\ ~pe.ok) THEN [ok |-> FALSE, data |-> data]
        ELSE IF current_date < ps.date THEN [ok |-> TRUE, data |-> data]
        ELSE IF has_end /\ AfterScheduleEnd(current_date, pe.date)
             THEN [ok |-> TRUE, data |-> data]
        ELSE IF ~should_generate_attendance(current_date, ps.date, schedule.pattern)
             THEN [ok |-> TRUE, data |-> data]
        ELSE LET date_str == DateStr(current_date)
             IN  [ok |-> TRUE,
                  data |-> [data EXCEPT !.daily_data =
                              MapInsert(@, date_str,
                                        MergeOccurrence(DayOrNew(data, date_str), schedule))]]

\* one iteration of "for schedule in &data.recurring_schedules" on one date:
\* [ok |-> FALSE] is the early return through "?"
ScheduleStep(data, current_date, schedule) ==
    IF ~schedule.active THEN [ok |-> TRUE, data |-> data]
    ELSE
    LET ps == ParseDate(schedule.start_date)
        has_end == schedule.end_date.t \notin {"none", "blank"}
        pe == ParseDate(schedule.end_date)
    IN  IF ~ps.ok THEN [ok |-> FALSE, data |-> data]
        ELSE IF current_date < ps.date THEN [ok |-> TRUE, data |-> data]
        ELSE IF has_end /\ ~pe.ok THEN [ok |-> FALSE, data |-> data]
        ELSE IF has_end /\ AfterScheduleEnd(current_date, pe.date)
             THEN [ok |-> TRUE, data |-> data]
        ELSE IF ~should_generate_attendance(current_date, ps.date, schedule.pattern)
             THEN [ok |-> TRUE, data |-> data]
        ELSE LET date_str == DateStr(current_date)
             IN  [ok |-> TRUE,
                  data |-> [data EXCEPT !.daily_data =
                              MapInsert(@, date_str,
                                        MergeOccurrence(DayOrNew(data, date_str), schedule))]]

\* the schedule loop of one date, from index i on; r is what the iteration before
\* left ("?" leaves the loop on Err)
RECURSIVE ScheduleLoop(_, _, _)
ScheduleLoop(r, current_date, i) ==
    IF ~r.ok \/ i > Len(r.data.recurring_schedules) THEN r
    ELSE ScheduleLoop(ScheduleStep(r.data, current_date, r.data.recurring_schedules[i]),
                      current_date, i + 1)

\* mutant: the range's end date is excluded
RECURSIVE DateLoopExclusive(_, _, _)
DateLoopExclusive(r, current_date, end) ==
    IF ~r.ok \/ current_date >= end THEN r
    ELSE DateLoopExclusive(ScheduleLoop(r, current_date, 1), SuccOpt(current_date), end)

\* "while current_date <= end"; r is what the dates before left
RECURSIVE DateLoop(_, _, _)
DateLoop(r, current_date, end) ==
    IF ~r.ok \/ current_date > end THEN r
    ELSE DateLoop(ScheduleLoop(r, current_date, 1), SuccOpt(current_date), end)

\* generate_recurring_attendance_internal(data, start_date, end_date):
\* data is the document as left in memory, ok whether the result is Ok(())
generate_recurring_attendance_internal(data, start_date, end_date) ==
    LET start == ParseDate(start_date)
        end == ParseDate(end_date)
    IN  IF ~start.ok \/ ~end.ok THEN [ok |-> FALSE, data |-> data]
        ELSE DateLoop([ok |-> TRUE, data |-> data], start.date, end.date)

(***************************************************************************)
(* Schedule Factory and the dog commands' window                           *)
(***************************************************************************)
GenerationWindowDays == 30

\* RecurringSchedule { id, dog_id, service_type, pattern, start_date, .. }
\* (created_at is a timestamp nothing reads)
MkSchedule(id, dog_id, service_type, pattern, start_date, end_date, drop_off, pick_up) ==
    [id |-> id, dog_id |-> dog_id, service_type |-> service_type, pattern |-> pattern,
     start_date |-> start_date, end_date |-> end_date,
     drop_off_time |-> drop_off, pick_up_time |-> pick_up, active |-> TRUE]

\* mutant: the factory does not look at the descriptor's active flag
DescriptorAlwaysActive(sd) == TRUE

\* if !dog.schedule.active { return; }
DescriptorActive(sd) == sd.active

\* generate_schedules_for_dog: uuid counts the Uuid::new_v4() values drawn so far;
\* the n-th value drawn is n
generate_schedules_for_dog(data, dog, today, uuid) ==
    IF ~DescriptorActive(dog.schedule) THEN [data |-> data, uuid |-> uuid]
    ELSE
    LET sd == dog.schedule
        start_date == IF sd.start_date.t \in {"none", "blank"}
                      THEN DateStr(today) ELSE sd.start_date
        hasD == sd.daycare_days # {}
        hasT == sd.training_days # {}
        hasB == sd.boarding_days # {}
        idD == uuid + 1
        idT == uuid + (IF hasD THEN 1 ELSE 0) + 1
        idB == uuid + (IF hasD THEN 1 ELSE 0) + (IF hasT THEN 1 ELSE 0) + 1
        s1 == IF hasD
              THEN <<MkSchedule(idD, dog.id, "Daycare", PCustom(sd.daycare_days), start_date,
                                sd.end_date, sd.daycare_drop_off, sd.daycare_pick_up)>>
              ELSE << >>
        s2 == IF hasT
              THEN <<MkSchedule(idT, dog.id, "Training", PCustom(sd.training_days), start_date,
                                sd.end_date, sd.training_drop_off, sd.training_pick_up)>>
              ELSE << >>
        s3 == IF hasB
              THEN <<MkSchedule(idB, dog.id, "Boarding", PCustom(sd.boarding_days), start_date,
                                sd.end_date, NoTime, NoTime)>>
              ELSE << >>
    IN  [data |-> [data EXCEPT !.recurring_schedules = @ \o s1 \o s2 \o s3],
         uuid |-> uuid + Len(s1) + Len(s2) + Len(s3)]

\* mutant: the window starts today, whatever the descriptor's start date
StartDateToday(dog, today) == today

\* start_date_for_generation of add_dog / update_dog
start_date_for_generation(dog, today) ==
    LET s == dog.schedule.start_date
    IN  IF s.t \in {"none", "blank"} THEN today
        ELSE Min(today, IF ParseDate(s).ok THEN ParseDate(s).date ELSE today)

\* end_date_for_generation of add_dog / update_dog
end_date_for_generation(dog, today) ==
    LET e == dog.schedule.end_date
        horizon == today + GenerationWindowDays
    IN  IF e.t \in {"none", "blank"} THEN horizon
        ELSE Max(horizon, IF ParseDate(e).ok THEN ParseDate(e).date ELSE horizon)

\* the materialization that closes add_dog and update_dog
GenerateForDog(data, dog, today) ==
    generate_recurring_attendance_internal(
        data, DateStr(start_date_for_generation(dog, today)),
        DateStr(end_date_for_generation(dog, today)))

\* clear_future_attendance_for_dog: key.starts_with("{dog_id}_")
KeyOfDog(key, dog_id) == key[1] = dog_id

ClearDay(day_data, dog_id) ==
    [day_data EXCEPT
       !.attendance.entries = [k \in {x \in DOMAIN @ : ~KeyOfDog(x, dog_id)} |-> @[k]],
       !.attendance.dogs = MapRemove(@, dog_id)]

\* mutant: "if date > today" - today's entries are not cleared
ClearAttendanceAfterToday(data, dog_id, today) ==
    [data EXCEPT !.daily_data =
        [ds \in DOMAIN @ |->
            IF ParseDate(ds).ok /\ ParseDate(ds).date > today
            THEN ClearDay(@[ds], dog_id) ELSE @[ds]]]

clear_future_attendance_for_dog(data, dog_id, today) ==
    [data EXCEPT !.daily_data =
        [ds \in DOMAIN @ |->
            IF ParseDate(ds).ok /\ ParseDate(ds).date >= today
            THEN ClearDay(@[ds], dog_id) ELSE @[ds]]]

\* data.dogs.iter().position(|d| d.id == id): 0 stands for None
RECURSIVE PositionFrom(_, _, _)
PositionFrom(seq, id, i) ==
    IF i > Len(seq) THEN 0
    ELSE IF seq[i].id = id THEN i ELSE PositionFrom(seq, id, i + 1)
Position(seq, id) == PositionFrom(seq, id, 1)

\* mutant: the dog's old schedules are not dropped
RetainAllSchedules(schedules, dog_id) == schedules

\* recurring_schedules.retain(|s| s.dog_id != dog_id)
RetainOtherDogs(schedules, dog_id) == SelectSeq(schedules, LAMBDA s : s.dog_id # dog_id)

\* mutant: the head of the vector is removed, whatever the index
RemoveFirst(seq, i) == Tail(seq)

\* Vec::remove(index)
RemoveAt(seq, i) == SubSeq(seq, 1, i - 1) \o SubSeq(seq, i + 1, Len(seq))


(***************************************************************************)
(* JSON text, in the data file, in a backup file or handed to import_data  *)
(***************************************************************************)
\* contents of the file at the data path: kind is what load_app_data_from_disk makes
\* of the bytes, doc the document they decode to (for "current": strictly; for
\* "legacy": after the migration patches)
Current(doc) == [kind |-> "current", doc |-> doc]
Legacy(doc)  == [kind |-> "legacy",  doc |-> doc]
Blank        == [kind |-> "blank",        doc |-> DefaultAppData]  \* whitespace only
Undecodable  == [kind |-> "undecodable",  doc |-> DefaultAppData]  \* not JSON
Unmigratable == [kind |-> "unmigratable", doc |-> DefaultAppData]  \* JSON, undecodable after the patches
Hostile      == [kind |-> "hostile",      doc |-> DefaultAppData]  \* JSON on which a patch panics, e.g. {"dogs": [5]}
Torn         == [kind |-> "torn",         doc |-> DefaultAppData]  \* a prefix of a serialization

Absent       == [kind |-> "absent",       doc |-> DefaultAppData]  \* no file at the path

BackupDoc == [DefaultAppData EXCEPT !.settings.business_name = "name of the backup"]

\* mutant: whatever the text, a document comes out of it
DecodeLenient(text) == [ok |-> TRUE, doc |-> text.doc]

\* serde_json::from_str::<AppData>(text): only the text of a current document decodes;
\* text in the legacy shape, blank text and text that is not JSON are errors
DecodeStrict(text) == [ok |-> text.kind = "current", doc |-> text.doc]

(***************************************************************************)
(* serde: the JSON tree of a document.  A JSON object is a record whose    *)
(* DOMAIN is the set of keys the text holds, so a key an older version did *)
(* not write is simply not in the DOMAIN.                                  *)
(***************************************************************************)
JNull == "null"                          \* the JSON value null, where a string may stand
JNullStr == [t |-> "null", d |-> 0]      \* the JSON value null, where a date may stand

\* a JSON value that is neither an object nor null, e.g. 5 or []
JScalar == [scalar |-> 5]
IsObject(v) == "scalar" \notin DOMAIN v

\* Serialize for Option<String>: None is written as null
OptToJson(v) == IF v = NoTime THEN JNull ELSE v
DateToJson(s) == IF s = NoneStr THEN JNullStr ELSE s

\* mutant: only a missing key gives None
OptFromJsonNullKept(obj, key) ==
    IF key \in DOMAIN obj THEN obj[key] ELSE NoTime

\* Deserialize for Option<String>: a missing key and null both give None
OptFromJson(obj, key) ==
    IF key \in DOMAIN obj /\ obj[key] # JNull THEN obj[key] ELSE NoTime
DateFromJson(obj, key) ==
    IF key \in DOMAIN obj /\ obj[key] # JNullStr THEN obj[key] ELSE NoneStr

\* DogSchedule::default()
DogScheduleDefault ==
    [daycare_days |-> {}, training_days |-> {}, boarding_days |-> {},
     daycare_drop_off |-> NoTime, daycare_pick_up |-> NoTime,
     training_drop_off |-> NoTime, training_pick_up |-> NoTime,
     start_date |-> NoneStr, end_date |-> NoneStr, active |-> TRUE]

\* serde_json::to_string_pretty(data), by the #[derive(Serialize)] of the structs
ToJson(doc) ==
    LET DogScheduleToJson(sd) ==
            [daycare_days |-> sd.daycare_days, training_days |-> sd.training_days,
             boarding_days |-> sd.boarding_days,
             daycare_drop_off |-> OptToJson(sd.daycare_drop_off),
             daycare_pick_up |-> OptToJson(sd.daycare_pick_up),
             training_drop_off |-> OptToJson(sd.training_drop_off),
             training_pick_up |-> OptToJson(sd.training_pick_up),
             start_date |-> DateToJson(sd.start_date), end_date |-> DateToJson(sd.end_date),
             active |-> sd.active]
        DogToJson(dog) ==
            [id |-> dog.id, name |-> dog.name, schedule |-> DogScheduleToJson(dog.schedule)]
        RecurringScheduleToJson(sc) ==
            [id |-> sc.id, dog_id |-> sc.dog_id, service_type |-> sc.service_type,
             pattern |-> sc.pattern, start_date |-> sc.start_date,
             end_date |-> DateToJson(sc.end_date),
             drop_off_time |-> OptToJson(sc.drop_off_time),
             pick_up_time |-> OptToJson(sc.pick_up_time), active |-> sc.active]
        AttendanceEntryToJson(e) ==
            [dog_id |-> e.dog_id, service_type |-> e.service_type, attending |-> e.attending,
             drop_off_time |-> OptToJson(e.drop_off_time),
             pick_up_time |-> OptToJson(e.pick_up_time), notes |-> OptToJson(e.notes)]
        DailyRecordToJson(r) ==
            [checklist |-> OptToJson(r.checklist), feeding_times |-> OptToJson(r.feeding_times),
             drop_off_time |-> OptToJson(r.drop_off_time),
             pick_up_time |-> OptToJson(r.pick_up_time), notes |-> OptToJson(r.notes)]
        DayDataToJson(day) ==
            [attendance |->
                [dogs |-> day.attendance.dogs,
                 entries |-> [k \in DOMAIN day.attendance.entries |->
                                AttendanceEntryToJson(day.attendance.entries[k])],
                 types |-> day.attendance.types],
             records |-> [g \in DOMAIN day.records |-> DailyRecordToJson(day.records[g])],
             am_temp |-> OptToJson(day.am_temp), pm_temp |-> OptToJson(day.pm_temp)]
    IN  [dogs |-> [i \in DOMAIN doc.dogs |-> DogToJson(doc.dogs[i])],
         daily_data |-> [ds \in DOMAIN doc.daily_data |-> DayDataToJson(doc.daily_data[ds])],
         recurring_schedules |->
            [i \in DOMAIN doc.recurring_schedules |->
                RecurringScheduleToJson(doc.recurring_schedules[i])],
         settings |-> [doc.settings EXCEPT !.cloud_backup = OptToJson(@)]]

\* #[derive(Deserialize)]: the keys without which serde_json::from_str::<AppData> is
\* an error (an Option and a #[serde(default)] field may be missing)
AppDataDecodes(t) ==
    LET DogScheduleDecodes(sd) ==
            {"daycare_days", "training_days", "boarding_days", "active"} \subseteq DOMAIN sd
        DogDecodes(dog) ==
            /\ IsObject(dog)
            /\ {"id", "name"} \subseteq DOMAIN dog
            /\ "schedule" \in DOMAIN dog => DogScheduleDecodes(dog.schedule)
        RecurringScheduleDecodes(sc) ==
            {"id", "dog_id", "service_type", "pattern", "start_date", "active"}
                \subseteq DOMAIN sc
        AttendanceEntryDecodes(e) == {"dog_id", "service_type", "attending"} \subseteq DOMAIN e
        DayDataDecodes(day) ==
            /\ {"attendance", "records"} \subseteq DOMAIN day
            /\ {"dogs", "entries"} \subseteq DOMAIN day.attendance
            /\ \A k \in DOMAIN day.attendance.entries :
                  AttendanceEntryDecodes(day.attendance.entries[k])
    IN  /\ IsObject(t)
        /\ {"dogs", "daily_data", "recurring_schedules", "settings"} \subseteq DOMAIN t
        /\ {"business_name", "auto_backup", "email_templates", "email_subjects"}
                \subseteq DOMAIN t.settings
        /\ \A i \in DOMAIN t.dogs : DogDecodes(t.dogs[i])
        /\ \A i \in DOMAIN t.recurring_schedules :
              RecurringScheduleDecodes(t.recurring_schedules[i])
        /\ \A ds \in DOMAIN t.daily_data : DayDataDecodes(t.daily_data[ds])

\* serde_json::from_str::<AppData> / from_value::<AppData>, where it is Ok; keys the
\* structs do not have are skipped
FromJson(t) ==
    LET DogScheduleFromJson(sd) ==
            [daycare_days |-> sd.daycare_days, training_days |-> sd.training_days,
             boarding_days |-> sd.boarding_days,
             daycare_drop_off |-> OptFromJson(sd, "daycare_drop_off"),
             daycare_pick_up |-> OptFromJson(sd, "daycare_pick_up"),
             training_drop_off |-> OptFromJson(sd, "training_drop_off"),
             training_pick_up |-> OptFromJson(sd, "training_pick_up"),
             start_date |-> DateFromJson(sd, "start_date"),
             end_date |-> DateFromJson(sd, "end_date"),
             active |-> sd.active]
        \* #[serde(default)] pub schedule: DogSchedule
        DogFromJson(dog) ==
            [id |-> dog.id, name |-> dog.name,
             schedule |-> IF "schedule" \in DOMAIN dog THEN DogScheduleFromJson(dog.schedule)
                          ELSE DogScheduleDefault]
        RecurringScheduleFromJson(sc) ==
            [id |-> sc.id, dog_id |-> sc.dog_id, service_type |-> sc.service_type,
             pattern |-> sc.pattern, start_date |-> sc.start_date,
             end_date |-> DateFromJson(sc, "end_date"),
             drop_off_time |-> OptFromJson(sc, "drop_off_time"),
             pick_up_time |-> OptFromJson(sc, "pick_up_time"), active |-> sc.active]
        AttendanceEntryFromJson(e) ==
            [dog_id |-> e.dog_id, service_type |-> e.service_type, attending |-> e.attending,
             drop_off_time |-> OptFromJson(e, "drop_off_time"),
             pick_up_time |-> OptFromJson(e, "pick_up_time"), notes |-> OptFromJson(e, "notes")]
        DailyRecordFromJson(r) ==
            [checklist |-> OptFromJson(r, "checklist"),
             feeding_times |-> OptFromJson(r, "feeding_times"),
             drop_off_time |-> OptFromJson(r, "drop_off_time"),
             pick_up_time |-> OptFromJson(r, "pick_up_time"), notes |-> OptFromJson(r, "notes")]
        \* #[serde(default)] pub types
        DayDataFromJson(day) ==
            [attendance |->
                [dogs |-> day.attendance.dogs,
                 entries |-> [k \in DOMAIN day.attendance.entries |->
                                AttendanceEntryFromJson(day.attendance.entries[k])],
                 types |-> IF "types" \in DOMAIN day.attendance THEN day.attendance.types
                           ELSE EmptyMap],
             records |-> [g \in DOMAIN day.records |-> DailyRecordFromJson(day.records[g])],
             am_temp |-> OptFromJson(day, "am_temp"), pm_temp |-> OptFromJson(day, "pm_temp")]
        \* #[serde(default = "default_business_phone")], #[serde(default)] and
        \* #[serde(default = "default_whatsapp_templates")]
        SettingsFromJson(st) ==
            [business_name |-> st.business_name,
             business_phone |-> IF "business_phone" \in DOMAIN st THEN st.business_phone
                                ELSE "",
             auto_backup |-> st.auto_backup,
             cloud_backup |-> OptFromJson(st, "cloud_backup"),
             email_templates |-> st.email_templates,
             email_subjects |-> st.email_subjects,
             whatsapp_templates |-> IF "whatsapp_templates" \in DOMAIN st
                                    THEN st.whatsapp_templates
                                    ELSE default_whatsapp_templates]
    IN  [dogs |-> [i \in DOMAIN t.dogs |-> DogFromJson(t.dogs[i])],
         daily_data |-> [ds \in DOMAIN t.daily_data |-> DayDataFromJson(t.daily_data[ds])],
         recurring_schedules |->
            [i \in DOMAIN t.recurring_schedules |->
                RecurringScheduleFromJson(t.recurring_schedules[i])],
         settings |-> SettingsFromJson(t.settings)]

(***************************************************************************)
(* The migration patches of load_app_data_from_disk                        *)
(***************************************************************************)
\* obj[key] = value on a serde_json::Value that is an object
SetKey(obj, key, value) == (key :> value) @@ obj
DropKey(obj, key) == [k \in DOMAIN obj \ {key} |-> obj[k]]

\* migrate_settings: "Add business_phone if missing", "Add whatsapp_templates if
\* missing"
migrate_settings(settings) ==
    LET s1 == IF "business_phone" \notin DOMAIN settings
              THEN SetKey(settings, "business_phone", "") ELSE settings
    IN  IF "whatsapp_templates" \notin DOMAIN s1
        THEN SetKey(s1, "whatsapp_templates", default_whatsapp_templates) ELSE s1

\* the json!({..}) migrate_dogs writes for a dog without a schedule
MigratedScheduleJson ==
    [daycare_days |-> {}, training_days |-> {}, boarding_days |-> {},
     daycare_drop_off |-> JNull, daycare_pick_up |-> JNull,
     training_drop_off |-> JNull, training_pick_up |-> JNull, active |-> TRUE]

\* migrate_dogs, on dogs that are objects
migrate_dogs(dogs) ==
    LET WithoutAge(dog) ==
            IF "age" \in DOMAIN dog /\ "date_of_birth" \notin DOMAIN dog
            THEN SetKey(DropKey(dog, "age"), "date_of_birth", JNull)
            ELSE dog
        WithSchedule(dog) ==
            IF "schedule" \notin DOMAIN dog THEN SetKey(dog, "schedule", MigratedScheduleJson)
            ELSE dog
    IN  [i \in DOMAIN dogs |-> WithSchedule(WithoutAge(dogs[i]))]

\* the entry migrate_daily_data builds for a dog the legacy map marks attending
MigratedEntryJson(dog_id, records) ==
    LET entry == [dog_id |-> dog_id, service_type |-> "Daycare", attending |-> TRUE,
                  notes |-> "Migrated from legacy attendance"]
        dog_record == IF dog_id \in DOMAIN records THEN records[dog_id] ELSE << >>
        e1 == IF "drop_off_time" \in DOMAIN dog_record
              THEN SetKey(entry, "drop_off_time", dog_record.drop_off_time) ELSE entry
    IN  IF "pick_up_time" \in DOMAIN dog_record
        THEN SetKey(e1, "pick_up_time", dog_record.pick_up_time) ELSE e1

\* mutant: the entries sub-map is added empty
MigratedEntriesEmpty(dogs_map, records) == EmptyMap

\* "Migrate existing dogs to entries as daycare services"
MigratedEntries(dogs_map, records) ==
    [k \in {entry_key(g, "Daycare") : g \in {x \in DOMAIN dogs_map : dogs_map[x]}} |->
        MigratedEntryJson(k[1], records)]

migrate_daily_data(daily_data) ==
    LET MigrateDay(day_data) ==
            IF "attendance" \in DOMAIN day_data /\ "entries" \notin DOMAIN day_data.attendance
            THEN LET records == IF "records" \in DOMAIN day_data THEN day_data.records
                                ELSE << >>
                     dogs_map == IF "dogs" \in DOMAIN day_data.attendance
                                 THEN day_data.attendance.dogs ELSE << >>
                 IN  SetKey(day_data, "attendance",
                            SetKey(day_data.attendance, "entries",
                                   MigratedEntries(dogs_map, records)))
            ELSE day_data
    IN  [ds \in DOMAIN daily_data |-> MigrateDay(daily_data[ds])]

\* a patch assigns into a Value that is neither an object nor null: IndexMut panics
PatchPanics(t) ==
    \/ ~IsObject(t)
    \/ "settings" \in DOMAIN t /\ ~IsObject(t.settings)
    \/ /\ "dogs" \in DOMAIN t
       /\ \E i \in DOMAIN t.dogs : ~IsObject(t.dogs[i])

\* the patches of the Err(parse_error) branch, in their order
Patched(t) ==
    LET t1 == IF "settings" \in DOMAIN t
              THEN SetKey(t, "settings", migrate_settings(t.settings)) ELSE t
        t2 == IF "dogs" \in DOMAIN t1 THEN SetKey(t1, "dogs", migrate_dogs(t1.dogs)) ELSE t1
        t3 == IF "recurring_schedules" \notin DOMAIN t2
              THEN SetKey(t2, "recurring_schedules", << >>) ELSE t2
    IN  IF "daily_data" \in DOMAIN t3
        THEN SetKey(t3, "daily_data", migrate_daily_data(t3.daily_data)) ELSE t3

\* what load_app_data_from_disk makes of a file that holds the JSON tree t
TextOf(t) ==
    IF AppDataDecodes(t) THEN Current(FromJson(t))
    ELSE IF PatchPanics(t) THEN Hostile
    ELSE IF AppDataDecodes(Patched(t)) THEN Legacy(FromJson(Patched(t)))
    ELSE Unmigratable

\* export_data: the text of the document
export_data(data) == TextOf(ToJson(data))

(***************************************************************************)
(* The mutation closures of the commands.  Each takes the loaded document  *)
(* and yields ok (the closure's Result), data (the document as left in     *)
(* memory), uuid (the ids drawn) and mat_in (the document handed to the    *)
(* materializer, when the command runs it).                                *)
(***************************************************************************)
Done(ok, data, uuid, mat_in) == [ok |-> ok, data |-> data, uuid |-> uuid, mat_in |-> mat_in]

\* the closure ends with the materializer's result r
DoneMaterialized(r, uuid, mat_in) == Done(r.ok, r.data, uuid, mat_in)

add_recurring_schedule(data, c, uuid) ==
    LET schedule == MkSchedule(uuid + 1, c.dog_id, c.service_type, c.pattern,
                               c.start_date, c.end_date, c.drop_off_time, c.pick_up_time)
    IN  Done(TRUE, [data EXCEPT !.recurring_schedules = Append(@, schedule)], uuid + 1, data)

delete_recurring_schedule(data, c, uuid) ==
    LET index == Position(data.recurring_schedules, c.schedule_id)
    IN  IF index # 0
        THEN Done(TRUE, [data EXCEPT !.recurring_schedules = RemoveAt(@, index)], uuid, data)
        ELSE Done(FALSE, data, uuid, data)

update_detailed_attendance(data, c, uuid) ==
    LET day_data == DayOrNew(data, c.date)
        d1 == IF c.service_type = "Daycare"
              THEN [day_data EXCEPT !.attendance.dogs = MapInsert(@, c.dog_id, c.attending)]
              ELSE day_data
        entry == [dog_id |-> c.dog_id, service_type |-> c.service_type,
                  attending |-> c.attending, drop_off_time |-> c.drop_off_time,
                  pick_up_time |-> c.pick_up_time, notes |-> c.notes]
        d2 == [d1 EXCEPT !.attendance.entries =
                 MapInsert(@, entry_key(c.dog_id, c.service_type), entry)]
    IN  Done(TRUE, [data EXCEPT !.daily_data = MapInsert(@, c.date, d2)], uuid, data)

update_daily_record(data, c, uuid) ==
    LET day_data == DayOrNew(data, c.date)
        d1 == [day_data EXCEPT !.records = MapInsert(@, c.dog_id, c.record)]
    IN  Done(TRUE, [data EXCEPT !.daily_data = MapInsert(@, c.date, d1)], uuid, data)

\* mutant: a schedule the document does not hold is appended
UpsertRecurringSchedule(data, c, uuid) ==
    LET index == Position(data.recurring_schedules, c.schedule.id)
    IN  IF index # 0
        THEN Done(TRUE, [data EXCEPT !.recurring_schedules[index] = c.schedule], uuid, data)
        ELSE Done(TRUE, [data EXCEPT !.recurring_schedules = Append(@, c.schedule)], uuid, data)

update_recurring_schedule(data, c, uuid) ==
    LET index == Position(data.recurring_schedules, c.schedule.id)
    IN  IF index # 0
        THEN Done(TRUE, [data EXCEPT !.recurring_schedules[index] = c.schedule], uuid, data)
        ELSE Done(FALSE, data, uuid, data)

update_attendance(data, c, uuid) ==
    LET day_data == DayOrNew(data, c.date)
        d1 == [day_data EXCEPT !.attendance.dogs = MapInsert(@, c.dog_id, c.attending)]
    IN  Done(TRUE, [data EXCEPT !.daily_data = MapInsert(@, c.date, d1)], uuid, data)

\* mutant: the retain predicate drops every entry
AutoNoteAny(notes) == TRUE

\* n.contains("Auto-generated") || n.contains("Scheduled (not confirmed)")
\*   || n.contains("Auto-scheduled"), on the notes the model uses
AutoNote(notes) ==
    notes \in {"Auto-generated", "Scheduled (not confirmed)", "Auto-scheduled"}

\* mutant: the clearing empties the legacy map of every date as well
ClearAutoAndLegacy(data, c, uuid) ==
    Done(TRUE,
         [data EXCEPT !.daily_data =
            [ds \in DOMAIN @ |->
               [@[ds] EXCEPT !.attendance.entries =
                  [k \in {x \in DOMAIN @ : ~AutoNote(@[x].notes)} |-> @[k]],
                             !.attendance.dogs = EmptyMap]]],
         uuid, data)

clear_auto_generated_attendance(data, c, uuid) ==
    Done(TRUE,
         [data EXCEPT !.daily_data =
            [ds \in DOMAIN @ |->
               [@[ds] EXCEPT !.attendance.entries =
                  [k \in {x \in DOMAIN @ : ~AutoNote(@[x].notes)} |-> @[k]]]]],
         uuid, data)

\* mutant: the delete also clears the dog's attendance on every date
DeleteDogCascading(data, c, uuid) ==
    LET index == Position(data.dogs, c.dog_id)
    IN  IF index # 0
        THEN Done(TRUE, [data EXCEPT !.dogs = RemoveAt(@, index),
                                     !.recurring_schedules = RetainOtherDogs(@, c.dog_id),
                                     !.daily_data = [ds \in DOMAIN @ |-> ClearDay(@[ds], c.dog_id)]],
                  uuid, data)
        ELSE Done(FALSE, data, uuid, data)

delete_dog(data, c, uuid) ==
    LET index == Position(data.dogs, c.dog_id)
    IN  IF index # 0
        THEN Done(TRUE, [data EXCEPT !.dogs = RemoveAt(@, index),
                                     !.recurring_schedules = RetainOtherDogs(@, c.dog_id)],
                  uuid, data)
        ELSE Done(FALSE, data, uuid, data)

\* import_data: the text is decoded before the cycle begins; the closure replaces
\* the document
import_data(data, c, uuid) ==
    LET imported == DecodeStrict(c.json_data)
    IN  IF imported.ok
        THEN Done(TRUE, imported.doc, uuid, data)
        ELSE Done(FALSE, data, uuid, data)

\* restore_from_backup: the file has to exist and to decode; the document it holds
\* is written to the data file without a load
restore_from_backup(data, c, uuid) ==
    LET backup_data == DecodeStrict(c.backup_file)
    IN  IF c.backup_file.kind = "absent" THEN Done(FALSE, data, uuid, data)
        ELSE IF backup_data.ok
        THEN Done(TRUE, backup_data.doc, uuid, data)
        ELSE Done(FALSE, data, uuid, data)

generate_recurring_attendance(data, c, uuid) ==
    DoneMaterialized(generate_recurring_attendance_internal(data, c.start_date, c.end_date),
                     uuid, data)

\* the tail of add_dog / update_dog: g is what generate_schedules_for_dog left
GenerateAfter(g, dog, today) ==
    DoneMaterialized(GenerateForDog(g.data, dog, today), g.uuid, g.data)

\* add_dog: the new dog's id is the first uuid drawn
add_dog(data, c, today, uuid) ==
    LET dog == [id |-> uuid + 1, name |-> c.name, schedule |-> c.schedule]
        has_schedule == c.schedule.active
                        /\ (c.schedule.daycare_days # {} \/ c.schedule.training_days # {}
                            \/ c.schedule.boarding_days # {})
        d1 == [data EXCEPT !.dogs = Append(@, dog)]
    IN  IF has_schedule
        THEN GenerateAfter(generate_schedules_for_dog(d1, dog, today, uuid + 1), dog, today)
        ELSE Done(TRUE, d1, uuid + 1, d1)

update_dog(data, c, today, uuid) ==
    LET dog == c.dog
        index == Position(data.dogs, dog.id)
        d1 == [data EXCEPT !.recurring_schedules = RetainOtherDogs(@, dog.id)]
        d2 == clear_future_attendance_for_dog(d1, dog.id, today)
        d3 == [d2 EXCEPT !.dogs[index] = dog]
    IN  IF index # 0
        THEN GenerateAfter(generate_schedules_for_dog(d3, dog, today, uuid), dog, today)
        ELSE Done(FALSE, data, uuid, data)

\* the closure a command passes to with_app_data_mut
Mutator(data, c, today, uuid) ==
    CASE c.op = "add_recurring_schedule"        -> add_recurring_schedule(data, c, uuid)
      [] c.op = "delete_recurring_schedule"     -> delete_recurring_schedule(data, c, uuid)
      [] c.op = "update_detailed_attendance"    -> update_detailed_attendance(data, c, uuid)
      [] c.op = "update_daily_record"           -> update_daily_record(data, c, uuid)
      [] c.op = "generate_recurring_attendance" -> generate_recurring_attendance(data, c, uuid)
      [] c.op = "add_dog"                       -> add_dog(data, c, today, uuid)
      [] c.op = "update_dog"                    -> update_dog(data, c, today, uuid)
      [] c.op = "update_recurring_schedule"     -> update_recurring_schedule(data, c, uuid)
      [] c.op = "update_attendance"             -> update_attendance(data, c, uuid)
      [] c.op = "clear_auto_generated_attendance" ->
                                         clear_auto_generated_attendance(data, c, uuid)
      [] c.op = "delete_dog"                    -> delete_dog(data, c, uuid)
      [] c.op = "import_data"                   -> import_data(data, c, uuid)
      [] c.op = "restore_from_backup"           -> restore_from_backup(data, c, uuid)

\* the commands whose closure runs the materializer
Materializing == {"generate_recurring_attendance", "add_dog", "update_dog"}


(***************************************************************************)
(* State                                                                   *)
(***************************************************************************)
VARIABLES
    eval,       \* EvalSpec: one call of should_generate_attendance
    data,       \* MatSpec: the persisted document
    uuid,       \* number of Uuid::new_v4() values drawn so far
    today,      \* Utc::now().date_naive()
    cmds,       \* MatSpec: number of commands run so far
    last,       \* MatSpec: history of the last command (what it was given and left)
    disk,       \* Spec: the file at the data path
    lock,       \* Spec: holder of DATA_FILE_LOCK, 0 when free
    poisoned,   \* Spec: DATA_FILE_LOCK is poisoned (a holder panicked)
    pc,         \* Spec: where each command invocation stands
    cmd,        \* Spec: the command each invocation runs
    mem,        \* Spec: each invocation's in-memory AppData
    res,        \* Spec: each invocation's result
    tmp,        \* Spec: each invocation's NamedTempFile
    ret,        \* Spec: what called write_app_data_to_disk
    prior,      \* Spec, history: the file when the current write began
    loaded,     \* Spec, history: the file when load_app_data_from_disk returned
    history,    \* Spec, history: the closures that returned Ok, in the order they ran
    faults,     \* Spec: I/O failures and crashes injected so far
    origin,     \* Spec, history: the file the behaviour started with
    file,       \* LoadSpec: a data file as a JSON tree, and what loading it gave
    db          \* MigSpec: the SQLite database and the run of run_migrations

evalVars == <<eval>>
matVars == <<data, uuid, today, cmds, last>>
storeVars == <<disk, lock, poisoned, pc, cmd, mem, res, tmp, ret, prior, loaded,
               history, faults, origin>>
loadVars == <<file>>
migVars == <<db>>
vars == <<eval, data, uuid, today, cmds, last, disk, lock, poisoned, pc, cmd, mem, res,
          tmp, ret, prior, loaded, history, faults, origin, file, db>>

NoCall == [current_date |-> 0, schedule_start |-> 0, pattern |-> PNone,
           evaluated |-> FALSE, should_attend |-> FALSE]
NoCommand == [op |-> "none", cmd |-> [op |-> "none"], prev |-> [op |-> "none"], ok |-> TRUE,
              before |-> DefaultAppData, mat_in |-> DefaultAppData,
              mat_out |-> DefaultAppData]

NoFile == [step |-> 0]
NoDb == [pc |-> "none"]

EvalIdle == eval = NoCall
LoadIdle == file = NoFile
MigIdle == db = NoDb
StoreIdle ==
    /\ disk = Absent
    /\ lock = 0
    /\ poisoned = FALSE
    /\ pc = << >>
    /\ cmd = << >>
    /\ mem = << >>
    /\ res = << >>
    /\ tmp = << >>
    /\ ret = << >>
    /\ prior = << >>
    /\ loaded = << >>
    /\ history = << >>
    /\ faults = 0
    /\ origin = disk
MatIdle ==
    /\ data = DefaultAppData
    /\ uuid = 0
    /\ today = 0
    /\ cmds = 0
    /\ last = NoCommand

(***************************************************************************)
(* EvalSpec: the recurrence evaluator on bounded inputs                    *)
(***************************************************************************)
EvalAnchorSpan == 31     \* anchors: the days of January 2024
EvalCandSpan == 430      \* candidates: 2024-01-01 .. 2025-03-06

EvalBase == FromCivil(2024, 1, 1)
EvalAnchors == {EvalBase + i : i \in 0 .. EvalAnchorSpan - 1}
EvalCandidates == {EvalBase + i : i \in 0 .. EvalCandSpan}
EvalPatterns ==
    {PNone, PDaily, PWeekly, PBiWeekly, PMonthly,
     PCustom({}), PCustom({1, 3, 5}), PCustom({0, 6}), PCustom({7, 9})}

EvalInit ==
    /\ eval \in [current_date : EvalCandidates, schedule_start : EvalAnchors,
                 pattern : EvalPatterns, evaluated : {FALSE}, should_attend : {FALSE}]
    /\ MatIdle
    /\ StoreIdle
    /\ LoadIdle
    /\ MigIdle

Evaluate ==
    /\ ~eval.evaluated
    /\ eval' = [eval EXCEPT
                  !.evaluated = TRUE,
                  !.should_attend = should_generate_attendance(
                                        eval.current_date, eval.schedule_start, eval.pattern)]
    /\ UNCHANGED <<matVars, storeVars, loadVars, migVars>>

EvalNext == Evaluate

EvalSpec == EvalInit /\ [][EvalNext]_vars

\* C10: Monthly - for a candidate on or after the anchor the evaluator returns true
\* iff the candidate's day-of-month is min(anchor day-of-month, length of the
\* candidate's month)
C10_MonthlyClamp ==
    (eval.evaluated /\ eval.pattern.kind = "Monthly"
     /\ eval.current_date >= eval.schedule_start)
    => (eval.should_attend
        <=> DayOf(eval.current_date)
              = Min(DayOf(eval.schedule_start), DaysInMonthOf(eval.current_date)))

\* C11: BiWeekly - the evaluator returns true iff the day count from the anchor to
\* the candidate is non-negative and divisible by 14; so never 7 days after the
\* anchor and always 14 days after it
C11_BiWeekly ==
    (eval.evaluated /\ eval.pattern.kind = "BiWeekly")
    => LET n == eval.current_date - eval.schedule_start
       IN  /\ eval.should_attend <=> (n >= 0 /\ (\E k \in 0 .. EvalCandSpan : n = 14 * k))
           /\ n = 7 => ~eval.should_attend
           /\ n = 14 => eval.should_attend

\* C11 witness: a BiWeekly evaluation 14 days after the anchor returned true
C11_Witness ==
    /\ eval.evaluated
    /\ eval.pattern.kind = "BiWeekly"
    /\ eval.current_date = eval.schedule_start + 14
    /\ eval.should_attend

\* a Sunday, and the Sunday-first weekday number counted from it
KnownSunday == FromCivil(2024, 1, 7)
SundayFirst(date) == (date - KnownSunday + 7 * EvalCandSpan) % 7

\* C12: Custom - the evaluator returns true iff the candidate's Sunday-first weekday
\* number (Sunday = 0 .. Saturday = 6) is in the set, whatever the anchor; numbers
\* outside 0..6 match no date
C12_Custom ==
    (eval.evaluated /\ eval.pattern.kind = "Custom")
    => /\ eval.should_attend <=> SundayFirst(eval.current_date) \in eval.pattern.days
       /\ eval.pattern.days \cap (0 .. 6) = {} => ~eval.should_attend

\* C12 witness: a Custom {1,3,5} evaluation on a Monday, anchored on another
\* weekday, returned true
C12_Witness ==
    /\ eval.evaluated
    /\ eval.pattern = PCustom({1, 3, 5})
    /\ eval.current_date = FromCivil(2024, 1, 15)
    /\ eval.schedule_start = FromCivil(2024, 1, 4)
    /\ eval.should_attend

(***************************************************************************)
(* MatSpec: the document under sequences of commands.  A command is one    *)
(* with_app_data_mut cycle, atomic under the global lock: the closure's    *)
(* result is persisted iff the closure returns Ok.                         *)
(***************************************************************************)
MaxCmds == 3             \* commands per behaviour
IdInputs == 2            \* dog ids the UI passes: 1 .. IdInputs

MatToday == FromCivil(2024, 3, 1)            \* a Friday

TimeInputs == {<<NoTime, NoTime>>, <<"08:00", "17:00">>, <<"09:00", NoTime>>}

\* add_recurring_schedule(dog_id, service_type, pattern, start_date, end_date, ..)
ScheduleInputs ==
    {[op |-> "add_recurring_schedule", dog_id |-> 1, service_type |-> sv, pattern |-> PDaily,
      start_date |-> DateStr(MatToday - 1), end_date |-> NoneStr,
      drop_off_time |-> t[1], pick_up_time |-> t[2]] :
        sv \in {"Daycare", "Training"}, t \in TimeInputs}
    \cup
    {[op |-> "add_recurring_schedule", dog_id |-> 2, service_type |-> "Daycare",
      pattern |-> pt, start_date |-> sd, end_date |-> ed,
      drop_off_time |-> NoTime, pick_up_time |-> NoTime] :
        pt \in {PWeekly}, sd \in {DateStr(MatToday), BadStr},
        ed \in {BlankStr, DateStr(MatToday), BadStr}}

\* update_detailed_attendance(date, dog_id, service_type, attending, ..)
AttendanceInputs ==
    {[op |-> "update_detailed_attendance", date |-> DateStr(d), dog_id |-> 1,
      service_type |-> sv, attending |-> a, drop_off_time |-> tm, pick_up_time |-> NoTime,
      notes |-> "none"] :
        d \in {MatToday - 1, MatToday}, sv \in {"Daycare", "Training"}, a \in BOOLEAN,
        tm \in {NoTime, "10:00"}}

\* update_daily_record(date, dog_id, record)
RecordInputs ==
    {[op |-> "update_daily_record", date |-> DateStr(MatToday), dog_id |-> 1,
      record |-> [NewDailyRecord EXCEPT !.drop_off_time = "07:30"]]}

\* generate_recurring_attendance(start_date, end_date)
RangeInputs ==
    {<<DateStr(MatToday - 1), DateStr(MatToday + 1)>>,
     <<DateStr(MatToday - 1), DateStr(MatToday - 1)>>,
     <<DateStr(MatToday), DateStr(MatToday)>>,
     <<DateStr(MatToday + 1), DateStr(MatToday)>>,
     <<BadStr, DateStr(MatToday)>>}
GenerateInputs ==
    {[op |-> "generate_recurring_attendance", start_date |-> r[1], end_date |-> r[2]] :
        r \in RangeInputs}

\* DogSchedule descriptors the UI passes to add_dog / update_dog
Descriptor(daycare, training, boarding, start, end, active) ==
    [daycare_days |-> daycare, training_days |-> training, boarding_days |-> boarding,
     daycare_drop_off |-> "08:30", daycare_pick_up |-> NoTime,
     training_drop_off |-> NoTime, training_pick_up |-> NoTime,
     start_date |-> start, end_date |-> end, active |-> active]
DescriptorInputs ==
    {Descriptor({}, {}, {}, NoneStr, NoneStr, TRUE),              \* active, no weekdays
     Descriptor({5}, {}, {}, NoneStr, NoneStr, TRUE),
     Descriptor({4, 5}, {5}, {6}, DateStr(MatToday - 1), DateStr(MatToday + 1), TRUE),
     Descriptor({5}, {}, {}, BlankStr, BlankStr, FALSE),
     Descriptor({5}, {}, {}, BadStr, NoneStr, TRUE)}

AddDogInputs == {[op |-> "add_dog", name |-> "Rex", schedule |-> sd] : sd \in DescriptorInputs}
UpdateDogInputs ==
    {[op |-> "update_dog", dog |-> [id |-> i, name |-> "Rex II", schedule |-> sd]] :
        i \in 1 .. IdInputs, sd \in DescriptorInputs}
DeleteScheduleInputs ==
    {[op |-> "delete_recurring_schedule", schedule_id |-> i] : i \in 1 .. IdInputs}

\* update_recurring_schedule(schedule): the schedule with that id as the document
\* holds it, paused; an id the document does not hold goes with a schedule of its own
PausedSchedule(id) ==
    LET index == Position(data.recurring_schedules, id)
        schedule == IF index # 0 THEN data.recurring_schedules[index]
                    ELSE MkSchedule(id, 1, "Daycare", PDaily, DateStr(MatToday - 1),
                                    NoneStr, NoTime, NoTime)
    IN  [schedule EXCEPT !.active = FALSE]
UpdateScheduleInputs ==
    {[op |-> "update_recurring_schedule", schedule |-> PausedSchedule(1)]}

\* update_attendance(date, dog_id, attending)
LegacyInputs ==
    {[op |-> "update_attendance", date |-> DateStr(d), dog_id |-> 1, attending |-> a] :
        d \in {MatToday - 1, MatToday}, a \in BOOLEAN}

ClearInputs == {[op |-> "clear_auto_generated_attendance"]}

DeleteDogInputs == {[op |-> "delete_dog", dog_id |-> i] : i \in 1 .. IdInputs}

\* import_data(json_data): text exported earlier, text of an old version, an empty
\* text, text that is not JSON
ImportInputs ==
    {[op |-> "import_data", json_data |-> t] :
        t \in {Current(BackupDoc), Legacy(BackupDoc), Blank, Undecodable}}

\* restore_from_backup(backup_filepath): what is at the path
RestoreInputs ==
    {[op |-> "restore_from_backup", backup_file |-> t] :
        t \in {Current(BackupDoc), Undecodable, Absent}}

MatInit ==
    /\ EvalIdle
    /\ StoreIdle
    /\ LoadIdle
    /\ MigIdle
    /\ data = DefaultAppData
    /\ uuid = 0
    /\ today = MatToday
    /\ cmds = 0
    /\ last = NoCommand

\* the dog_id argument of a command about the k-th dog of the list; for a dog the
\* document does not hold, an id that no Uuid::new_v4() will return
DogRef(k) == IF k <= Len(data.dogs) THEN data.dogs[k].id ELSE 0 - k
Resolve(c) == [c EXCEPT !.dog_id = DogRef(@)]

\* the end of a cycle whose closure left r: persist iff it returned Ok
Commit(c, r) ==
    /\ data' = IF r.ok THEN r.data ELSE data
    /\ uuid' = r.uuid
    /\ last' = [op |-> c.op, cmd |-> c, prev |-> last.cmd, ok |-> r.ok, before |-> data,
                mat_in |-> r.mat_in, mat_out |-> r.data]

\* one command cycle: load, run the closure, persist iff it returned Ok
Run(c) ==
    /\ Commit(c, Mutator(data, c, today, uuid))
    /\ cmds' = cmds + 1
    /\ UNCHANGED <<eval, file, db, today, storeVars>>

AddRecurringSchedule ==
    /\ cmds < MaxCmds
    /\ \E c \in ScheduleInputs : Run(Resolve(c))
DeleteRecurringSchedule ==
    /\ cmds < MaxCmds
    /\ \E c \in DeleteScheduleInputs : Run(c)
UpdateDetailedAttendance ==
    /\ cmds < MaxCmds
    /\ \E c \in AttendanceInputs : Run(Resolve(c))
UpdateDailyRecord ==
    /\ cmds < MaxCmds
    /\ \E c \in RecordInputs : Run(Resolve(c))
GenerateRecurringAttendance ==
    /\ cmds < MaxCmds
    /\ \E c \in GenerateInputs : Run(c)
AddDog ==
    /\ cmds < MaxCmds
    /\ \E c \in AddDogInputs : Run(c)
UpdateDog ==
    /\ cmds < MaxCmds
    /\ \E c \in UpdateDogInputs : Run(c)

UpdateRecurringSchedule ==
    /\ cmds < MaxCmds
    /\ \E c \in UpdateScheduleInputs : Run(c)
UpdateAttendance ==
    /\ cmds < MaxCmds
    /\ \E c \in LegacyInputs : Run(Resolve(c))
ClearAutoGeneratedAttendance ==
    /\ cmds < MaxCmds
    /\ \E c \in ClearInputs : Run(c)
DeleteDog ==
    /\ cmds < MaxCmds
    /\ \E c \in DeleteDogInputs : Run(c)

\* the text export_data returns for the document, handed back to import_data
ExportedInputs == {[op |-> "import_data", json_data |-> export_data(data)]}

ImportData ==
    /\ cmds < MaxCmds
    /\ \E c \in ImportInputs \cup ExportedInputs : Run(c)
RestoreFromBackup ==
    /\ cmds < MaxCmds
    /\ \E c \in RestoreInputs : Run(c)

MatNext ==
    \/ AddRecurringSchedule
    \/ DeleteRecurringSchedule
    \/ UpdateDetailedAttendance
    \/ UpdateDailyRecord
    \/ GenerateRecurringAttendance
    \/ AddDog
    \/ UpdateDog
    \/ UpdateRecurringSchedule
    \/ UpdateAttendance
    \/ ClearAutoGeneratedAttendance
    \/ DeleteDog
    \/ ImportData
    \/ RestoreFromBackup

MatSpec == MatInit /\ [][MatNext]_vars


(***************************************************************************)
(* Properties of the materializer                                          *)
(***************************************************************************)
\* the AttendanceEntry keys of a document: <<date string, entry key>>
EntryKeys(doc) ==
    UNION {{<<ds, k>> : k \in DOMAIN doc.daily_data[ds].attendance.entries} :
             ds \in DOMAIN doc.daily_data}
EntryAt(doc, ds, k) == doc.daily_data[ds].attendance.entries[k]

\* every entry of doc is in doc2, field for field
EntriesKept(doc, doc2) ==
    \A x \in EntryKeys(doc) :
        /\ x \in EntryKeys(doc2)
        /\ EntryAt(doc2, x[1], x[2]) = EntryAt(doc, x[1], x[2])

\* a schedule is due on a date: active, inside its own bounds, and occurring
Due(schedule, date) ==
    /\ schedule.active
    /\ ParseDate(schedule.start_date).ok
    /\ ParseDate(schedule.start_date).date <= date
    /\ \/ schedule.end_date.t \in {"none", "blank"}
       \/ ParseDate(schedule.end_date).ok /\ date <= ParseDate(schedule.end_date).date
    /\ should_generate_attendance(date, ParseDate(schedule.start_date).date, schedule.pattern)

\* what one generate_recurring_attendance cycle leaves persisted
Persisted(doc, r) == IF r.ok THEN r.data ELSE doc
GenOnce(doc, rg) ==
    Persisted(doc, generate_recurring_attendance_internal(doc, rg[1], rg[2]))

\* C1: non-destructive merge - every entry that exists when materialization starts
\* (in generate_recurring_attendance, or in add_dog / update_dog after the clearing
\* step) is field-for-field identical in the document materialization leaves, and
\* the same holds of materializing the current document over any range
C1_NonDestructiveMerge ==
    /\ last.op \in Materializing => EntriesKept(last.mat_in, last.mat_out)
    /\ \A rg \in RangeInputs :
          EntriesKept(data, generate_recurring_attendance_internal(data, rg[1], rg[2]).data)

\* C1 witness: a generate_recurring_attendance ran over a range holding a hand-made
\* entry with attending = FALSE for which an active schedule was due that day, and
\* the entry is still there unchanged
C1_Witness ==
    /\ last.op = "generate_recurring_attendance"
    /\ last.ok
    /\ \E x \in EntryKeys(last.mat_in) :
          /\ ~EntryAt(last.mat_in, x[1], x[2]).attending
          /\ EntryAt(last.mat_in, x[1], x[2]).notes = "none"
          /\ ParseDate(x[1]).ok
          /\ ParseDate(last.cmd.start_date).date <= ParseDate(x[1]).date
          /\ ParseDate(x[1]).date <= ParseDate(last.cmd.end_date).date
          /\ \E i \in DOMAIN last.mat_in.recurring_schedules :
                LET sc == last.mat_in.recurring_schedules[i]
                IN  /\ entry_key(sc.dog_id, sc.service_type) = x[2]
                    /\ Due(sc, ParseDate(x[1]).date)
          /\ EntryAt(data, x[1], x[2]) = EntryAt(last.mat_in, x[1], x[2])

\* C6: idempotence - materializing a range twice in a row leaves the document that
\* materializing it once leaves (entries, legacy map, records, set of ledgers)
C6_Idempotent ==
    /\ \A rg \in RangeInputs : GenOnce(GenOnce(data, rg), rg) = GenOnce(data, rg)
    /\ (last.op = "generate_recurring_attendance" /\ last.prev = last.cmd)
          => data = last.before

\* C6 witness: the same generate_recurring_attendance ran twice in a row over a
\* document with no dogs; the first run created entries and the second changed nothing
C6_Witness ==
    /\ last.op = "generate_recurring_attendance"
    /\ last.prev = last.cmd
    /\ last.ok
    /\ data = last.before
    /\ data.dogs = << >>
    /\ \E x \in EntryKeys(data) : EntryAt(data, x[1], x[2]).notes = "Auto-scheduled"

\* the document with its schedule list reordered
Reordered(doc, perm) ==
    [doc EXCEPT !.recurring_schedules = [i \in DOMAIN @ |-> @[perm[i]]]]

\* C7: order independence - the ledger materialization produces is the same for
\* every ordering of recurring_schedules
C7_OrderIndependent ==
    \A rg \in RangeInputs :
        \A perm \in Permutations(DOMAIN data.recurring_schedules) :
            GenOnce(Reordered(data, perm), rg).daily_data = GenOnce(data, rg).daily_data

\* the date range [lo, hi] the last command handed to the materializer
MatRange ==
    IF last.op = "generate_recurring_attendance"
    THEN [lo |-> ParseDate(last.cmd.start_date).date,
          hi |-> ParseDate(last.cmd.end_date).date]
    ELSE LET dog == IF last.op = "add_dog" THEN [schedule |-> last.cmd.schedule]
                    ELSE last.cmd.dog
         IN  [lo |-> start_date_for_generation(dog, today),
              hi |-> end_date_for_generation(dog, today)]

\* the last command ran the materializer to its end
Materialized ==
    /\ last.ok
    /\ \/ last.op \in {"generate_recurring_attendance", "update_dog"}
       \/ /\ last.op = "add_dog"
          /\ last.cmd.schedule.active
          /\ last.cmd.schedule.daycare_days \cup last.cmd.schedule.training_days
                \cup last.cmd.schedule.boarding_days # {}

\* the schedules of the list that are due on a date for a key
DueFor(schedules, key, date) ==
    {i \in DOMAIN schedules :
        /\ entry_key(schedules[i].dog_id, schedules[i].service_type) = key
        /\ Due(schedules[i], date)}

\* C13: soundness - an entry the materializer creates lies on a date of the range
\* (bounds included) and has an active schedule of its dog and service that started
\* on or before that date, has no end, a blank end or an end on or after it, and
\* occurs on it
C13_Soundness ==
    last.op \in Materializing
    => \A x \in EntryKeys(last.mat_out) \ EntryKeys(last.mat_in) :
          /\ ParseDate(x[1]).ok
          /\ MatRange.lo <= ParseDate(x[1]).date
          /\ ParseDate(x[1]).date <= MatRange.hi
          /\ DueFor(last.mat_in.recurring_schedules, x[2], ParseDate(x[1]).date) # {}

\* C13 witness: add_dog materialized a schedule with an end date; entries were
\* created, and a later date of the range on which the pattern occurs has none
C13_Witness ==
    /\ last.op = "add_dog"
    /\ Materialized
    /\ EntryKeys(last.mat_out) # EntryKeys(last.mat_in)
    /\ \E i \in DOMAIN last.mat_in.recurring_schedules :
          LET sc == last.mat_in.recurring_schedules[i]
          IN  /\ ParseDate(sc.end_date).ok
              /\ \E d \in ParseDate(sc.end_date).date + 1 .. MatRange.hi :
                    /\ should_generate_attendance(d, ParseDate(sc.start_date).date,
                                                  sc.pattern)
                    /\ <<DateStr(d), entry_key(sc.dog_id, sc.service_type)>>
                          \notin EntryKeys(last.mat_out)

\* C14: completeness - after a successful materialization every date of the range
\* (bounds included) has an entry for every schedule due on it, and an entry the
\* materializer inserted has attending = true, the note "Auto-scheduled" and the
\* times of a schedule due for it
C14_Completeness ==
    Materialized
    => /\ \A d \in MatRange.lo .. MatRange.hi :
             \A i \in DOMAIN last.mat_in.recurring_schedules :
                LET sc == last.mat_in.recurring_schedules[i]
                IN  Due(sc, d) => <<DateStr(d), entry_key(sc.dog_id, sc.service_type)>>
                                     \in EntryKeys(last.mat_out)
       /\ \A x \in EntryKeys(last.mat_out) \ EntryKeys(last.mat_in) :
             LET e == EntryAt(last.mat_out, x[1], x[2])
             IN  /\ e.attending
                 /\ e.notes = "Auto-scheduled"
                 /\ \E i \in DueFor(last.mat_in.recurring_schedules, x[2],
                                     ParseDate(x[1]).date) :
                       /\ e.drop_off_time = last.mat_in.recurring_schedules[i].drop_off_time
                       /\ e.pick_up_time = last.mat_in.recurring_schedules[i].pick_up_time

\* C14 witness: a generate_recurring_attendance over a range of several days
\* inserted entries carrying a schedule's times on both bounds of the range
C14_Witness ==
    /\ last.op = "generate_recurring_attendance"
    /\ Materialized
    /\ MatRange.lo < MatRange.hi
    /\ \E k \in {x[2] : x \in EntryKeys(data)} :
          /\ \A d \in {MatRange.lo, MatRange.hi} :
                /\ <<DateStr(d), k>> \in EntryKeys(data) \ EntryKeys(last.mat_in)
                /\ EntryAt(data, DateStr(d), k).drop_off_time = "08:00"
\* the daily records of a document: <<date string, dog id>>
RecordKeys(doc) ==
    UNION {{<<ds, dog>> : dog \in DOMAIN doc.daily_data[ds].records} :
             ds \in DOMAIN doc.daily_data}
RecordAt(doc, ds, dog) == doc.daily_data[ds].records[dog]

\* C15: backfill-if-blank - a materialization never changes a drop_off_time or
\* pick_up_time that a dog's daily record already has; it writes a schedule's time
\* only into a field that is absent
C15_BackfillIfBlank ==
    last.op \in Materializing
    => \A x \in RecordKeys(last.mat_in) :
          LET before == RecordAt(last.mat_in, x[1], x[2])
              after == RecordAt(last.mat_out, x[1], x[2])
          IN  /\ before.drop_off_time # NoTime => after.drop_off_time = before.drop_off_time
              /\ before.pick_up_time # NoTime => after.pick_up_time = before.pick_up_time

\* the legacy boolean map values of a document: <<date string, dog id>>
LegacyKeys(doc) ==
    UNION {{<<ds, dog>> : dog \in DOMAIN doc.daily_data[ds].attendance.dogs} :
             ds \in DOMAIN doc.daily_data}
LegacyAt(doc, ds, dog) == doc.daily_data[ds].attendance.dogs[dog]

\* C16: hand-entered attendance is never overwritten by materialization - when the
\* command before a successful generate_recurring_attendance, add_dog or update_dog
\* of another dog was an update_attendance or an update_detailed_attendance, the
\* value it recorded is still in the document
C16_HandEnteredKept ==
    (/\ last.op \in Materializing
     /\ last.ok
     /\ last.prev.op \in {"update_attendance", "update_detailed_attendance"}
     /\ ~(last.op = "update_dog" /\ last.cmd.dog.id = last.prev.dog_id))
    => LET c == last.prev
           key == <<c.date, entry_key(c.dog_id, c.service_type)>>
       IN  /\ c.op = "update_attendance"
                => /\ <<c.date, c.dog_id>> \in LegacyKeys(data)
                   /\ LegacyAt(data, c.date, c.dog_id) = c.attending
           /\ c.op = "update_detailed_attendance"
                => /\ key \in EntryKeys(data)
                   /\ EntryAt(data, key[1], key[2]).attending = c.attending
                   /\ EntryAt(data, key[1], key[2]).drop_off_time = c.drop_off_time
                   /\ c.service_type = "Daycare"
                        => LegacyAt(data, c.date, c.dog_id) = c.attending

\* C17: the legacy map is in sync with the entry map - on every date a dog has a
\* legacy value exactly when it has a Daycare entry, and the value is that entry's
\* attending flag
C17_LegacyInSync ==
    \A ds \in DOMAIN data.daily_data :
        LET att == data.daily_data[ds].attendance
        IN  /\ \A dog \in DOMAIN att.dogs :
                  /\ entry_key(dog, "Daycare") \in DOMAIN att.entries
                  /\ att.entries[entry_key(dog, "Daycare")].attending = att.dogs[dog]
            /\ \A k \in DOMAIN att.entries :
                  k[2] = "Daycare" => k[1] \in DOMAIN att.dogs
\* the last command was an explicit edit of the entry x
EditedBy(x) ==
    /\ last.op = "update_detailed_attendance"
    /\ x = <<last.cmd.date, entry_key(last.cmd.dog_id, last.cmd.service_type)>>

\* the last command was an update_dog whose clearing step covers the entry x
ClearedBy(x) ==
    /\ last.op = "update_dog"
    /\ x[2][1] = last.cmd.dog.id
    /\ ParseDate(x[1]).ok
    /\ ParseDate(x[1]).date >= today

\* the entry x is as it was before the last command
Untouched(x) ==
    /\ x \in EntryKeys(data)
    /\ EntryAt(data, x[1], x[2]) = EntryAt(last.before, x[1], x[2])

\* the last command put another document in the place of the document
Replaced == last.op \in {"import_data", "restore_from_backup"}

\* C18 as stated: an existing entry is removed or replaced only by an explicit edit
\* of that entry or by the clear-future-attendance step of update_dog for its dog;
\* no other command that edits the document, clear_auto_generated_attendance
\* included, removes or changes it
C18_RemovedOnlyByEditOrDogEdit ==
    \A x \in EntryKeys(last.before) :
        Untouched(x) \/ EditedBy(x) \/ ClearedBy(x) \/ Replaced

\* C18 amended: an existing entry is removed or replaced only by an explicit edit of
\* that entry, by the clear-future-attendance step of update_dog for its dog, or by
\* clear_auto_generated_attendance when its note is a machine-generated marker
C18_RemovedOnlyByEditOrClear ==
    \A x \in EntryKeys(last.before) :
        \/ Untouched(x)
        \/ EditedBy(x)
        \/ ClearedBy(x)
        \/ Replaced
        \/ /\ last.op = "clear_auto_generated_attendance"
           /\ EntryAt(last.before, x[1], x[2]).notes
                 \in {"Auto-generated", "Scheduled (not confirmed)", "Auto-scheduled"}

\* C18 witness: clear_auto_generated_attendance removed a machine-generated entry
\* and left a hand-made one as it was
C18_Witness ==
    /\ last.op = "clear_auto_generated_attendance"
    /\ \E x \in EntryKeys(last.before) :
          /\ x \notin EntryKeys(data)
          /\ EntryAt(last.before, x[1], x[2]).notes = "Auto-scheduled"
    /\ \E y \in EntryKeys(last.before) :
          /\ EntryAt(last.before, y[1], y[2]).notes = "none"
          /\ Untouched(y)
\* C19: dog-edit preserves the past - after a successful update_dog every entry of
\* the dog on a date before today that existed before the edit is unchanged, and
\* so is the dog's legacy map value on such a date
C19_DogEditKeepsPast ==
    (last.op = "update_dog" /\ last.ok)
    => /\ \A x \in EntryKeys(last.before) :
             (/\ x[2][1] = last.cmd.dog.id
              /\ ParseDate(x[1]).ok
              /\ ParseDate(x[1]).date < today) => Untouched(x)
       /\ \A y \in LegacyKeys(last.before) :
             (/\ y[2] = last.cmd.dog.id
              /\ ParseDate(y[1]).ok
              /\ ParseDate(y[1]).date < today)
             => /\ y \in LegacyKeys(data)
                /\ LegacyAt(data, y[1], y[2]) = LegacyAt(last.before, y[1], y[2])
\* the days of a descriptor for a service
DescriptorDays(sd, service) ==
    CASE service = "Daycare" -> sd.daycare_days
      [] service = "Training" -> sd.training_days
      [] service = "Boarding" -> sd.boarding_days

\* the schedule derived from a descriptor for a service occurs on a date within
\* its bounds
DescriptorOccurs(sd, service, date) ==
    /\ sd.active
    /\ SundayFirst(date) \in DescriptorDays(sd, service)
    /\ (IF sd.start_date.t \in {"none", "blank"} THEN today ELSE sd.start_date.d) <= date
    /\ sd.end_date.t \in {"none", "blank"} \/ date <= sd.end_date.d

\* max(today + 30 days, the descriptor's end date)
DescriptorHorizon(sd) ==
    IF sd.end_date.t \in {"none", "blank"} THEN today + 30
    ELSE Max(today + 30, sd.end_date.d)

\* C20: dog-edit regenerates the future - after a successful update_dog, on every
\* date from today to max(today + 30, descriptor end) and for every service the dog
\* has an entry iff the schedule derived from the edited descriptor occurs on that
\* date within its bounds; every entry of the dog dated today or later is
\* machine-generated with attending = true, so none from before the edit survives
C20_DogEditRegenerates ==
    (last.op = "update_dog" /\ last.ok)
    => LET dog == last.cmd.dog
       IN  /\ \A d \in today .. DescriptorHorizon(dog.schedule) :
                 \A sv \in ServiceTypes :
                    <<DateStr(d), entry_key(dog.id, sv)>> \in EntryKeys(data)
                       <=> DescriptorOccurs(dog.schedule, sv, d)
           /\ \A x \in EntryKeys(data) :
                 (x[2][1] = dog.id /\ ParseDate(x[1]).ok /\ ParseDate(x[1]).date >= today)
                 => /\ ParseDate(x[1]).date <= DescriptorHorizon(dog.schedule)
                    /\ EntryAt(data, x[1], x[2]).attending
                    /\ EntryAt(data, x[1], x[2]).notes = "Auto-scheduled"

\* C20 witness: update_dog found a hand-made entry of the dog on today with
\* attending = false and left a machine-generated one in its place
C20_Witness ==
    /\ last.op = "update_dog"
    /\ last.ok
    /\ \E x \in EntryKeys(last.before) :
          /\ x[1] = DateStr(today)
          /\ x[2][1] = last.cmd.dog.id
          /\ ~EntryAt(last.before, x[1], x[2]).attending
          /\ EntryAt(last.before, x[1], x[2]).notes = "none"
          /\ x \in EntryKeys(data)
          /\ EntryAt(data, x[1], x[2]).notes = "Auto-scheduled"
\* what a document holds about the dogs other than d: their schedules, attendance
\* entries, legacy map values and daily records
OtherDogs(doc, d) ==
    [schedules |-> SelectSeq(doc.recurring_schedules, LAMBDA sc : sc.dog_id # d),
     entries |-> {<<x, EntryAt(doc, x[1], x[2])>> : x \in {y \in EntryKeys(doc) : y[2][1] # d}},
     legacy |-> {<<x, LegacyAt(doc, x[1], x[2])>> : x \in {y \in LegacyKeys(doc) : y[2] # d}},
     records |-> {<<x, RecordAt(doc, x[1], x[2])>> : x \in {y \in RecordKeys(doc) : y[2] # d}}]

\* C21: dog-edit touches only the edited dog - a successful update_dog leaves the
\* schedules, attendance entries, legacy map values and daily records of every other
\* dog as they were
C21_DogEditTouchesOnlyItsDog ==
    (last.op = "update_dog" /\ last.ok)
    => OtherDogs(data, last.cmd.dog.id) = OtherDogs(last.before, last.cmd.dog.id)
\* the recurring schedules a dog owns
OwnedBy(doc, d) == SelectSeq(doc.recurring_schedules, LAMBDA sc : sc.dog_id = d)
ScheduleIds(doc) == {doc.recurring_schedules[i].id : i \in DOMAIN doc.recurring_schedules}

\* C22: schedules are regenerated in full on edit - after a successful update_dog
\* the dog owns one schedule for each service whose day list in an active new
\* descriptor is non-empty and none for the others, each with the descriptor's days
\* as its pattern, and no schedule from before the edit is among them
C22_SchedulesRegenerated ==
    (last.op = "update_dog" /\ last.ok)
    => LET sd == last.cmd.dog.schedule
           owned == OwnedBy(data, last.cmd.dog.id)
       IN  /\ \A sv \in ServiceTypes :
                 Cardinality({i \in DOMAIN owned : owned[i].service_type = sv})
                    = IF sd.active /\ DescriptorDays(sd, sv) # {} THEN 1 ELSE 0
           /\ \A i \in DOMAIN owned :
                 /\ owned[i].pattern = PCustom(DescriptorDays(sd, owned[i].service_type))
                 /\ owned[i].id \notin ScheduleIds(last.before)

\* C22 witness: the edited dog owned a schedule made with add_recurring_schedule
\* (a Daily one); after the edit it owns schedules, none of them that one
C22_Witness ==
    /\ last.op = "update_dog"
    /\ last.ok
    /\ \E i \in DOMAIN OwnedBy(last.before, last.cmd.dog.id) :
          OwnedBy(last.before, last.cmd.dog.id)[i].pattern = PDaily
    /\ OwnedBy(data, last.cmd.dog.id) # << >>
    /\ \A i \in DOMAIN OwnedBy(data, last.cmd.dog.id) :
          OwnedBy(data, last.cmd.dog.id)[i].pattern.kind = "Custom"
DogIds(doc) == {doc.dogs[i].id : i \in DOMAIN doc.dogs}

\* the entries of dog d on dates before / from the day t
EntriesBefore(doc, d, t) ==
    {x \in EntryKeys(doc) : x[2][1] = d /\ ParseDate(x[1]).ok /\ ParseDate(x[1]).date < t}
EntriesFrom(doc, d, t) ==
    {x \in EntryKeys(doc) : x[2][1] = d /\ ParseDate(x[1]).ok /\ ParseDate(x[1]).date >= t}

\* the dog and its schedules are gone
DogGone(doc, d) == d \notin DogIds(doc) /\ OwnedBy(doc, d) = << >>

\* C23 as stated: dog-delete cascades to future attendance - after a successful
\* delete_dog(d) the dog and its schedules are gone, no entry of d is left on a date
\* today or later, and every entry of d on a past date is kept
C23_DogDeleteCascades ==
    (last.op = "delete_dog" /\ last.ok)
    => LET d == last.cmd.dog_id
       IN  /\ DogGone(data, d)
           /\ EntriesFrom(data, d, today) = {}
           /\ \A x \in EntriesBefore(last.before, d, today) :
                 x \in EntryKeys(data) /\ EntryAt(data, x[1], x[2]) = EntryAt(last.before, x[1], x[2])

\* C23 amended: after a successful delete_dog(d) the dog and its schedules are gone
\* and every attendance entry of d, on a past date or on a date today or later, is
\* kept as it was
C23_DogDeleteKeepsAttendance ==
    (last.op = "delete_dog" /\ last.ok)
    => LET d == last.cmd.dog_id
       IN  /\ DogGone(data, d)
           /\ \A x \in EntriesBefore(last.before, d, today) \cup EntriesFrom(last.before, d, today) :
                 x \in EntryKeys(data) /\ EntryAt(data, x[1], x[2]) = EntryAt(last.before, x[1], x[2])

\* C23 witness: a dog with a schedule and with entries both before today and from
\* today on has been deleted, and the entries are there
C23_Witness ==
    /\ last.op = "delete_dog"
    /\ last.ok
    /\ OwnedBy(last.before, last.cmd.dog_id) # << >>
    /\ EntriesBefore(data, last.cmd.dog_id, today) # {}
    /\ EntriesFrom(data, last.cmd.dog_id, today) # {}

\* C24: dog-delete leaves the ledger alone - a successful delete_dog(d) removes the
\* dog record d and the schedules d owns and nothing else: the date-to-ledger map,
\* the other dogs, the other schedules and the settings are as before
C24_DogDeleteFrame ==
    (last.op = "delete_dog" /\ last.ok)
    => LET d == last.cmd.dog_id
       IN  /\ d \in DogIds(last.before)
           /\ data.dogs = SelectSeq(last.before.dogs, LAMBDA g : g.id # d)
           /\ data.recurring_schedules
                 = SelectSeq(last.before.recurring_schedules, LAMBDA sc : sc.dog_id # d)
           /\ data.daily_data = last.before.daily_data
           /\ data.settings = last.before.settings

\* C24 witness: the second of two dogs is deleted while the ledger holds entries of
\* it; the first dog is still there
C24_Witness ==
    /\ last.op = "delete_dog"
    /\ last.ok
    /\ Len(last.before.dogs) = 2
    /\ last.before.dogs[2].id = last.cmd.dog_id
    /\ Len(data.dogs) = 1
    /\ \E x \in EntryKeys(data) : x[2][1] = last.cmd.dog_id
\* the last command ran generate_schedules_for_dog, or add_dog skipped it for a
\* descriptor without a schedule
FactoryRan ==
    \/ last.op = "add_dog"
    \/ last.op = "update_dog" /\ last.cmd.dog.id \in DogIds(last.before)

\* the dog handed to the factory
FactoryDog ==
    IF last.op = "add_dog" THEN last.mat_in.dogs[Len(last.mat_in.dogs)] ELSE last.cmd.dog

\* what the factory left for the dog: the dog had no schedule when it ran
Derived == OwnedBy(last.mat_in, FactoryDog.id)

\* C25: Schedule Factory - an inactive descriptor yields no schedule; an active one
\* yields exactly one schedule for each service whose weekday list is non-empty and
\* none for the others, each with pattern Custom(that list), with the descriptor's
\* start date as anchor, or today when it is missing or blank, and the Boarding
\* schedule has no drop-off and no pick-up time
C25_ScheduleFactory ==
    FactoryRan
    => LET sd == FactoryDog.schedule
       IN  /\ ~sd.active => Derived = << >>
           /\ sd.active =>
                 \A sv \in ServiceTypes :
                    Cardinality({i \in DOMAIN Derived : Derived[i].service_type = sv})
                       = IF DescriptorDays(sd, sv) # {} THEN 1 ELSE 0
           /\ \A i \in DOMAIN Derived :
                 /\ Derived[i].pattern = PCustom(DescriptorDays(sd, Derived[i].service_type))
                 /\ Derived[i].start_date
                       = IF sd.start_date.t \in {"none", "blank"} THEN DateStr(today)
                         ELSE sd.start_date
                 /\ Derived[i].service_type = "Boarding"
                       => Derived[i].drop_off_time = NoTime /\ Derived[i].pick_up_time = NoTime

\* C25 witness: a descriptor with days for all three services gave three schedules,
\* the Daycare one with a drop-off time and the Boarding one without times
C25_Witness ==
    /\ FactoryRan
    /\ Len(Derived) = 3
    /\ \E i \in DOMAIN Derived :
          Derived[i].service_type = "Daycare" /\ Derived[i].drop_off_time # NoTime
    /\ \E i \in DOMAIN Derived :
          Derived[i].service_type = "Boarding" /\ Derived[i].drop_off_time = NoTime

\* min(today, the descriptor's start date)
DescriptorAnchor(sd) ==
    IF sd.start_date.t \in {"none", "blank"} THEN today ELSE Min(today, sd.start_date.d)

\* the descriptor is active and lists a weekday
HasSchedule(sd) ==
    sd.active /\ (sd.daycare_days # {} \/ sd.training_days # {} \/ sd.boarding_days # {})

\* the dates on which the document has an entry of the dog for the service
EntryDates(doc, d, sv) ==
    {ParseDate(x[1]).date : x \in {y \in EntryKeys(doc) : y[2] = entry_key(d, sv)}}

\* C26: default materialization window on dog-add - after a successful add_dog with
\* an active descriptor listing a weekday, the new dog has an entry for a service on
\* exactly the dates of [min(today, anchor), max(today + 30, descriptor end)] on which
\* the schedule derived for the service occurs within its bounds; after an add_dog
\* with an inactive or empty descriptor the dog has no schedule and no entry
C26_AddDogWindow ==
    (last.op = "add_dog" /\ last.ok)
    => LET dog == data.dogs[Len(data.dogs)]
           sd == dog.schedule
       IN  IF HasSchedule(sd)
           THEN \A sv \in ServiceTypes :
                   EntryDates(data, dog.id, sv)
                     = {d \in DescriptorAnchor(sd) .. DescriptorHorizon(sd) :
                          DescriptorOccurs(sd, sv, d)}
           ELSE /\ OwnedBy(data, dog.id) = << >>
                /\ \A x \in EntryKeys(data) : x[2][1] # dog.id

\* C26 witness: add_dog with a start date before today gave the dog an entry before
\* today and one after it
C26_Witness ==
    /\ last.op = "add_dog"
    /\ last.ok
    /\ HasSchedule(last.cmd.schedule)
    /\ \E sv \in ServiceTypes :
          \E d \in EntryDates(data, data.dogs[Len(data.dogs)].id, sv) : d < today
    /\ \E sv \in ServiceTypes :
          \E d \in EntryDates(data, data.dogs[Len(data.dogs)].id, sv) : d > today
\* the last command named a dog or a schedule the document did not hold
NotFound ==
    \/ last.op = "update_dog" /\ last.cmd.dog.id \notin DogIds(last.before)
    \/ last.op = "delete_dog" /\ last.cmd.dog_id \notin DogIds(last.before)
    \/ last.op = "update_recurring_schedule"
          /\ last.cmd.schedule.id \notin ScheduleIds(last.before)
    \/ last.op = "delete_recurring_schedule"
          /\ last.cmd.schedule_id \notin ScheduleIds(last.before)

\* C27: not-found aborts before any write - update_dog, delete_dog with a dog id and
\* update_recurring_schedule, delete_recurring_schedule with a schedule id the
\* document does not hold return an error and the persisted document is unchanged
C27_NotFoundAborts ==
    NotFound => ~last.ok /\ data = last.before

\* C27 witness: update_recurring_schedule with an unknown schedule id failed on a
\* document that holds dogs, schedules and entries
C27_Witness ==
    /\ last.op = "update_recurring_schedule"
    /\ NotFound
    /\ ~last.ok
    /\ data.dogs # << >>
    /\ data.recurring_schedules # << >>
    /\ EntryKeys(data) # {}
\* generate_recurring_attendance was called with two dates, the end before the start
ReversedRange ==
    /\ last.op = "generate_recurring_attendance"
    /\ ParseDate(last.cmd.start_date).ok
    /\ ParseDate(last.cmd.end_date).ok
    /\ ParseDate(last.cmd.end_date).date < ParseDate(last.cmd.start_date).date

\* C28: a reversed date range is rejected - generate_recurring_attendance with an end
\* date earlier than its start date returns a failure and the document is unchanged
C28_ReversedRangeRejected ==
    ReversedRange => ~last.ok /\ data = last.before
\* a date string that is there and is not a YYYY-MM-DD date
Unparsable(s) == s.t = "bad"

\* the last command was given an unparsable schedule date
GivenUnparsableDate ==
    \/ last.op = "add_recurring_schedule"
          /\ (Unparsable(last.cmd.start_date) \/ Unparsable(last.cmd.end_date))
    \/ last.op = "update_recurring_schedule"
          /\ (Unparsable(last.cmd.schedule.start_date) \/ Unparsable(last.cmd.schedule.end_date))
    \/ last.op = "add_dog" /\ Unparsable(last.cmd.schedule.start_date)
    \/ last.op = "update_dog" /\ Unparsable(last.cmd.dog.schedule.start_date)

\* C29: unparsable dates are rejected at the command that receives them - such a
\* command fails and persists nothing, so the document never holds a schedule with
\* an unparsable start or end date
C29_UnparsableDatesRejected ==
    /\ GivenUnparsableDate => ~last.ok /\ data = last.before
    /\ \A i \in DOMAIN data.recurring_schedules :
          /\ ~Unparsable(data.recurring_schedules[i].start_date)
          /\ ~Unparsable(data.recurring_schedules[i].end_date)
\* the text or the file the last command was given
Received ==
    IF last.op = "import_data" THEN last.cmd.json_data ELSE last.cmd.backup_file

\* C30: malformed import or restore changes nothing - import_data with text, or
\* restore_from_backup with a file, that does not decode as a document returns an
\* error and the persisted document is unchanged; with text or a file that decodes
\* the persisted document becomes the decoded one, nothing of the old one kept
C30_ImportOrRestore ==
    Replaced
    => IF Received.kind = "current"
       THEN last.ok /\ data = Received.doc
       ELSE ~last.ok /\ data = last.before

\* C30 witness: text in the shape of an old version was refused by import_data and
\* the document, with its dogs and entries, is as it was
C30_Witness ==
    /\ last.op = "import_data"
    /\ Received.kind = "legacy"
    /\ ~last.ok
    /\ data.dogs # << >>
    /\ EntryKeys(data) # {}
\* C31: export/import round trip - the text export_data returns for a persisted
\* document is accepted by import_data and leaves a persisted document equal to the
\* original in dogs, ledger, schedules and settings
C31_ExportImportRoundTrip ==
    (last.op = "import_data" /\ last.cmd.json_data = export_data(last.before))
    => /\ last.ok
       /\ data = last.before
       /\ FromJson(ToJson(data)) = data

\* C31 witness: the exported text of a document with a dog, schedules, entries, a
\* legacy map value and a daily record was imported
C31_Witness ==
    /\ last.op = "import_data"
    /\ last.cmd.json_data = export_data(last.before)
    /\ last.ok
    /\ data.dogs # << >>
    /\ data.recurring_schedules # << >>
    /\ EntryKeys(data) # {}
    /\ LegacyKeys(data) # {}
    /\ RecordKeys(data) # {}

\* the note of an entry is one of the machine-generated markers
MachineGenerated(notes) ==
    notes \in {"Auto-generated", "Scheduled (not confirmed)", "Auto-scheduled"}

\* the dates of a range, and the entries the schedules of doc imply on them
DatesOf(rg) == ParseDate(rg[1]).date .. ParseDate(rg[2]).date
Implied(doc, rg) ==
    {<<DateStr(d), entry_key(doc.recurring_schedules[i].dog_id,
                             doc.recurring_schedules[i].service_type)>> :
        <<i, d>> \in {y \in (DOMAIN doc.recurring_schedules) \X DatesOf(rg) :
                        Due(doc.recurring_schedules[y[1]], y[2])}}

\* C37: clear_auto_generated_attendance removes, on every date, exactly the entries
\* whose note is a machine-generated marker, keeps every other entry unchanged, and
\* leaves the legacy map, the daily records, the schedules and the dogs unchanged;
\* a materialization of the cleared document over a range that succeeds leaves an
\* entry for everything the schedules imply in the range, the removed ones as
\* machine-generated entries again
C37_ClearAutoGenerated ==
    last.op = "clear_auto_generated_attendance"
    => /\ last.ok
       /\ EntryKeys(data)
             = {x \in EntryKeys(last.before) :
                  ~MachineGenerated(EntryAt(last.before, x[1], x[2]).notes)}
       /\ \A x \in EntryKeys(data) : EntryAt(data, x[1], x[2]) = EntryAt(last.before, x[1], x[2])
       /\ DOMAIN data.daily_data = DOMAIN last.before.daily_data
       /\ \A ds \in DOMAIN data.daily_data :
             /\ data.daily_data[ds].attendance.dogs = last.before.daily_data[ds].attendance.dogs
             /\ data.daily_data[ds].records = last.before.daily_data[ds].records
       /\ data.recurring_schedules = last.before.recurring_schedules
       /\ data.dogs = last.before.dogs
       /\ \A rg \in RangeInputs :
             LET r == generate_recurring_attendance_internal(data, rg[1], rg[2])
             IN  r.ok =>
                   /\ Implied(data, rg) \subseteq EntryKeys(r.data)
                   /\ \A x \in Implied(data, rg) \ EntryKeys(data) :
                         /\ EntryAt(r.data, x[1], x[2]).notes = "Auto-scheduled"
                         /\ EntryAt(r.data, x[1], x[2]).attending
                   /\ EntryKeys(r.data) = EntryKeys(data) \cup Implied(data, rg)

\* C37 witness: the clearing removed a machine-generated entry and kept a hand-made
\* one, and materializing a range puts the removed entry back
C37_Witness ==
    /\ last.op = "clear_auto_generated_attendance"
    /\ \E x \in EntryKeys(data) : EntryAt(data, x[1], x[2]).notes = "none"
    /\ LegacyKeys(data) # {}
    /\ \E x \in EntryKeys(last.before) \ EntryKeys(data) :
          \E rg \in RangeInputs :
             /\ x \in EntryKeys(GenOnce(data, rg))
             /\ EntryAt(GenOnce(data, rg), x[1], x[2]) = EntryAt(last.before, x[1], x[2])

\* the last command called generate_recurring_attendance_internal
MaterializationRan ==
    \/ last.op = "generate_recurring_attendance"
    \/ last.op = "update_dog" /\ last.cmd.dog.id \in DogIds(last.before)
    \/ last.op = "add_dog"
          /\ last.cmd.schedule.active
          /\ (last.cmd.schedule.daycare_days # {} \/ last.cmd.schedule.training_days # {}
              \/ last.cmd.schedule.boarding_days # {})

\* the range it was called with: <<first day, last day>>
MaterializedRange ==
    IF last.op = "generate_recurring_attendance"
    THEN <<ParseDate(last.cmd.start_date).date, ParseDate(last.cmd.end_date).date>>
    ELSE LET dog == IF last.op = "add_dog" THEN [schedule |-> last.cmd.schedule]
                    ELSE last.cmd.dog
         IN  <<start_date_for_generation(dog, today), end_date_for_generation(dog, today)>>
RangeParses ==
    last.op = "generate_recurring_attendance"
    => ParseDate(last.cmd.start_date).ok /\ ParseDate(last.cmd.end_date).ok

BadEnd(sc) == sc.end_date.t \notin {"none", "blank"} /\ ~ParseDate(sc.end_date).ok
BadDates(sc) == sc.active /\ (~ParseDate(sc.start_date).ok \/ BadEnd(sc))

\* an active schedule whose start date does not parse, or whose end date does not
\* parse and whose start date is not after the day hi
BadUpTo(sc, hi) ==
    /\ sc.active
    /\ \/ ~ParseDate(sc.start_date).ok
       \/ BadEnd(sc) /\ ParseDate(sc.start_date).date <= hi

\* C38 as stated: materialization is all-or-nothing with respect to bad schedule
\* dates - if any active schedule of the document has an unparsable start date or an
\* unparsable non-blank end date and the range is not empty,
\* generate_recurring_attendance, add_dog and update_dog (for any dog) fail and
\* persist nothing; inactive schedules with unparsable dates cause no failure
C38_BadDatesFailEveryMaterialization ==
    (/\ last.op \in Materializing
     /\ RangeParses
     /\ MaterializedRange[1] <= MaterializedRange[2]
     /\ \E i \in DOMAIN last.before.recurring_schedules :
           BadDates(last.before.recurring_schedules[i]))
    => ~last.ok /\ data = last.before

\* C38, amended: a materialization over a non-empty range fails, and then the
\* command persists nothing, exactly when a schedule of the document handed to it is
\* active and has an unparsable start date, or is active and has an unparsable
\* non-blank end date and a start date on or before the range's last day; this is
\* so for generate_recurring_attendance, for update_dog of an existing dog (whose
\* own schedules have been replaced by then) and for add_dog of a dog whose
\* descriptor is active and lists a weekday; an add_dog that does not materialize,
\* an unparsable end date of a schedule that starts after the range, and inactive
\* schedules with unparsable dates cause no failure
C38_BadDatesFailMaterialization ==
    /\ (MaterializationRan /\ RangeParses /\ MaterializedRange[1] <= MaterializedRange[2])
       => /\ ~last.ok <=> \E i \in DOMAIN last.mat_in.recurring_schedules :
                            BadUpTo(last.mat_in.recurring_schedules[i], MaterializedRange[2])
          /\ ~last.ok => data = last.before
    /\ (last.op = "add_dog" /\ ~MaterializationRan) => last.ok

\* C38 witnesses: a generate_recurring_attendance over a range that ends before the
\* start of the only schedule with a bad date, an active one with an unparsable end
\* date, succeeded and created an entry for another schedule
C38_Witness ==
    /\ last.op = "generate_recurring_attendance"
    /\ last.ok
    /\ MaterializedRange[1] <= MaterializedRange[2]
    /\ \E i \in DOMAIN data.recurring_schedules : BadDates(data.recurring_schedules[i])
    /\ EntryKeys(data) # EntryKeys(last.before)

(***************************************************************************)
(* Spec: the document store.  Each invocation runs one command cycle step  *)
(* by step: lock, load (with the default and migration writes), closure,   *)
(* write_app_data_to_disk, guard drop.                                     *)
(***************************************************************************)
NProcs == 2              \* concurrent command invocations
MaxFaults == 1           \* injected I/O failures and crashes per behaviour

Procs == 1 .. NProcs

GoodSchedule ==
    [op |-> "add_recurring_schedule", dog_id |-> 1, service_type |-> "Daycare",
     pattern |-> PDaily, start_date |-> DateStr(MatToday - 1), end_date |-> NoneStr,
     drop_off_time |-> "08:00", pick_up_time |-> NoTime]
BadSchedule ==
    [op |-> "add_recurring_schedule", dog_id |-> 2, service_type |-> "Daycare",
     pattern |-> PDaily, start_date |-> BadStr, end_date |-> NoneStr,
     drop_off_time |-> NoTime, pick_up_time |-> NoTime]

\* a document two add_recurring_schedule commands leave: a good schedule, then one
\* with an unparsable start date
SeedDoc ==
    LET r1 == add_recurring_schedule(DefaultAppData, GoodSchedule, 0)
    IN  add_recurring_schedule(r1.data, BadSchedule, r1.uuid).data
SeedUuid == Len(SeedDoc.recurring_schedules)

\* the JSON tree of an older version's file: a dog with an age and without a
\* schedule descriptor, a day with the legacy attendance map only, settings without
\* business_phone, no recurring_schedules
LegacyTree ==
    [dogs |-> <<[id |-> 1, name |-> "Rex", age |-> 3]>>,
     daily_data |->
        (DateStr(MatToday) :>
            [attendance |-> [dogs |-> (1 :> TRUE)],
             records |-> (1 :> [drop_off_time |-> "08:15"])]),
     settings |-> [business_name |-> "Dogs of old", auto_backup |-> FALSE,
                   email_templates |-> "email templates of old",
                   email_subjects |-> "email subjects of old"]]

\* what that file migrates to
MigratedDoc == FromJson(Patched(LegacyTree))

InitialFiles ==
    {Absent, Blank, Current(SeedDoc), TextOf(LegacyTree), Undecodable, Unmigratable, Hostile}

StoreCommands ==
    {[GoodSchedule EXCEPT !.service_type = "Training"],
     [op |-> "generate_recurring_attendance",
      start_date |-> DateStr(MatToday), end_date |-> DateStr(MatToday)],
     [op |-> "delete_recurring_schedule", schedule_id |-> 1],
     [op |-> "get_recurring_schedules"],
     [op |-> "restore_from_backup", backup |-> BackupDoc]}

ReadOps == {"get_recurring_schedules"}
NoCmd == [op |-> "none"]

WriteSteps == {"w_create", "w_serialize", "w_sync", "w_remove", "w_persist"}
CycleSteps == {"load", "mutate", "unlock"} \cup WriteSteps

Init ==
    /\ EvalIdle
    /\ LoadIdle
    /\ MigIdle
    /\ data = DefaultAppData
    /\ uuid = SeedUuid
    /\ today = MatToday
    /\ cmds = 0
    /\ last = NoCommand
    /\ disk \in InitialFiles
    /\ lock = 0
    /\ poisoned = FALSE
    /\ pc = [p \in Procs |-> "idle"]
    /\ cmd = [p \in Procs |-> NoCmd]
    /\ mem = [p \in Procs |-> DefaultAppData]
    /\ res = [p \in Procs |-> "none"]
    /\ tmp = [p \in Procs |-> "none"]
    /\ ret = [p \in Procs |-> "none"]
    /\ prior = [p \in Procs |-> Absent]
    /\ loaded = [p \in Procs |-> Absent]
    /\ history = << >>
    /\ faults = 0
    /\ origin = disk

\* mutant: lock() returns at once whoever holds the mutex
MutexNeverBlocks == TRUE

\* DATA_FILE_LOCK.lock() returns only once no other thread holds the mutex
MutexAvailable == lock = 0

\* mutant: "let _ = DATA_FILE_LOCK.lock()" - the guard is dropped at once
GuardDroppedAtOnce(p) == 0

\* "let _guard = DATA_FILE_LOCK.lock()": the holder while _guard lives
GuardHeld(p) == p

\* mutant: the write is not conditional on the closure's result
ShouldPersistAlways(ok) == TRUE

\* with_app_data_mut: "if result.is_ok()"
ShouldPersist(ok) == ok

\* the UI invokes a command (restore_from_backup has read and decoded its backup file)
Issue(p) ==
    /\ pc[p] = "idle"
    /\ \E c \in StoreCommands : cmd' = [cmd EXCEPT ![p] = c]
    /\ pc' = [pc EXCEPT ![p] = "lock"]
    /\ UNCHANGED <<origin, eval, file, db, matVars, disk, lock, poisoned, mem, res, tmp, ret, prior, loaded,
                   history, faults>>

\* write_app_data_to_disk is entered with the document doc, called from r
BeginWrite(p, doc, r) ==
    /\ mem' = [mem EXCEPT ![p] = doc]
    /\ ret' = [ret EXCEPT ![p] = r]
    /\ prior' = [prior EXCEPT ![p] = disk]
    /\ pc' = [pc EXCEPT ![p] = "w_create"]

\* DATA_FILE_LOCK.lock().map_err(..)?: a poisoned mutex yields Err, and the guard
\* inside the error is dropped at once
Acquire(p) ==
    /\ pc[p] = "lock"
    /\ MutexAvailable
    /\ IF poisoned
       THEN /\ res' = [res EXCEPT ![p] = "err_lock"]
            /\ pc' = [pc EXCEPT ![p] = "done"]
            /\ UNCHANGED <<lock, mem, ret, prior, history>>
       ELSE /\ lock' = GuardHeld(p)
            /\ IF cmd[p].op = "restore_from_backup"
               THEN /\ BeginWrite(p, cmd[p].backup, "restore")
                    /\ history' = Append(history, cmd[p])
                    /\ UNCHANGED res
               ELSE /\ pc' = [pc EXCEPT ![p] = "load"]
                    /\ UNCHANGED <<res, mem, ret, prior, history>>
    /\ UNCHANGED <<origin, eval, file, db, matVars, disk, poisoned, cmd, tmp, loaded, faults>>

\* the cycle ends with Err: "?" returns and the guard is dropped by Release
Fail(p, e) ==
    /\ res' = [res EXCEPT ![p] = e]
    /\ pc' = [pc EXCEPT ![p] = "unlock"]

\* mutant: the document is handed to the caller without being written
LoadUnwritten(p, doc) ==
    /\ mem' = [mem EXCEPT ![p] = doc]
    /\ ret' = [ret EXCEPT ![p] = "load"]
    /\ prior' = [prior EXCEPT ![p] = disk]
    /\ loaded' = [loaded EXCEPT ![p] = disk]
    /\ pc' = [pc EXCEPT ![p] = "mutate"]
    /\ UNCHANGED res

\* "let default_data = AppData::default(); write_app_data_to_disk(path,
\* &default_data)?; return Ok(default_data)"
LoadDefault(p, doc) == BeginWrite(p, doc, "load") /\ UNCHANGED <<res, loaded>>

\* mutant: the migrated document is not written
LoadMigratedUnwritten(p, doc) == LoadUnwritten(p, doc)

\* "write_app_data_to_disk(path, &migrated)?; Ok(migrated)"
LoadMigrated(p, doc) == BeginWrite(p, doc, "load") /\ UNCHANGED <<res, loaded>>

\* load_app_data_from_disk, up to its return or its call of write_app_data_to_disk
Load(p) ==
    /\ pc[p] = "load"
    /\ disk.kind # "hostile"
    /\ CASE disk.kind \in {"absent", "blank"} -> LoadDefault(p, DefaultAppData)
         [] disk.kind = "legacy" -> LoadMigrated(p, disk.doc)
         [] disk.kind = "current" ->
              /\ mem' = [mem EXCEPT ![p] = disk.doc]
              /\ loaded' = [loaded EXCEPT ![p] = disk]
              /\ pc' = [pc EXCEPT ![p] = "mutate"]
              /\ UNCHANGED <<res, ret, prior>>
         [] OTHER ->
              Fail(p, "err_load") /\ UNCHANGED <<mem, ret, prior, loaded>>
    /\ UNCHANGED <<origin, eval, file, db, matVars, disk, lock, poisoned, cmd, tmp, history, faults>>

\* the process dies: every running invocation is gone, the restarted process has a
\* fresh mutex, files stay as they are
ProcessDies ==
    /\ pc' = [p \in Procs |-> IF pc[p] \in {"idle", "done", "dead"} THEN pc[p] ELSE "dead"]
    /\ lock' = 0
    /\ poisoned' = FALSE

\* a migration patch indexes into a JSON value that is no object: the thread panics
\* holding the guard (the mutex is poisoned), or the process aborts
LoadPanics(p) ==
    /\ pc[p] = "load"
    /\ disk.kind = "hostile"
    /\ \/ /\ poisoned' = TRUE
          /\ lock' = 0
          /\ pc' = [pc EXCEPT ![p] = "done"]
          /\ res' = [res EXCEPT ![p] = "panic"]
       \/ /\ ProcessDies
          /\ UNCHANGED res
    /\ UNCHANGED <<origin, eval, file, db, matVars, disk, cmd, mem, tmp, ret, prior, loaded, history, faults>>

\* with_app_data_mut after "let result = mutator(&mut data)": r is what the closure left
AfterClosure(p, r) ==
    /\ uuid' = r.uuid
    /\ history' = IF r.ok THEN Append(history, cmd[p]) ELSE history
    /\ IF ShouldPersist(r.ok)
       THEN /\ BeginWrite(p, r.data, "commit")
            /\ res' = [res EXCEPT ![p] = IF r.ok THEN "none" ELSE "err_closure"]
       ELSE /\ Fail(p, "err_closure")
            /\ mem' = [mem EXCEPT ![p] = r.data]
            /\ UNCHANGED <<ret, prior>>

\* the closure runs on the loaded document
Mutate(p) ==
    /\ pc[p] = "mutate"
    /\ IF cmd[p].op \in ReadOps
       THEN /\ res' = [res EXCEPT ![p] = "ok"]
            /\ pc' = [pc EXCEPT ![p] = "unlock"]
            /\ UNCHANGED <<mem, ret, prior, history, uuid>>
       ELSE AfterClosure(p, Mutator(mem[p], cmd[p], today, uuid))
    /\ UNCHANGED <<origin, eval, file, db, data, today, cmds, last, disk, lock, poisoned, cmd, tmp, loaded,
                   faults>>

\* create_dir_all, Builder::new()..tempfile_in(dir)
WCreate(p) ==
    /\ pc[p] = "w_create"
    /\ tmp' = [tmp EXCEPT ![p] = "empty"]
    /\ pc' = [pc EXCEPT ![p] = "w_serialize"]
    /\ UNCHANGED <<origin, eval, file, db, matVars, disk, lock, poisoned, cmd, mem, res, ret, prior, loaded,
                   history, faults>>

\* mutant: the serialization is written over the data file itself
WSerializeInPlace(p) ==
    /\ pc[p] = "w_serialize"
    /\ disk' = Torn
    /\ pc' = [pc EXCEPT ![p] = "w_sync"]
    /\ UNCHANGED <<origin, eval, file, db, matVars, tmp, lock, poisoned, cmd, mem, res, ret, prior, loaded,
                   history, faults>>

\* serde_json::to_writer_pretty(temp_file, data): the bytes reach the temp file
\* piece by piece
WSerialize(p) ==
    /\ pc[p] = "w_serialize"
    /\ tmp' = [tmp EXCEPT ![p] = "partial"]
    /\ pc' = [pc EXCEPT ![p] = "w_sync"]
    /\ UNCHANGED <<origin, eval, file, db, matVars, disk, lock, poisoned, cmd, mem, res, ret, prior, loaded,
                   history, faults>>

\* the rest of the bytes, flush(), sync_all()
WSync(p) ==
    /\ pc[p] = "w_sync"
    /\ tmp' = [tmp EXCEPT ![p] = "full"]
    /\ pc' = [pc EXCEPT ![p] = "w_remove"]
    /\ UNCHANGED <<origin, eval, file, db, matVars, disk, lock, poisoned, cmd, mem, res, ret, prior, loaded,
                   history, faults>>

\* "if path.exists() { fs::remove_file(path) }"
WRemove(p) ==
    /\ pc[p] = "w_remove"
    /\ disk' = Absent
    /\ pc' = [pc EXCEPT ![p] = "w_persist"]
    /\ UNCHANGED <<origin, eval, file, db, matVars, tmp, lock, poisoned, cmd, mem, res, ret, prior, loaded,
                   history, faults>>

\* temp_file.persist(path): the rename; then the caller goes on
WPersist(p) ==
    /\ pc[p] = "w_persist"
    /\ disk' = Current(mem[p])
    /\ tmp' = [tmp EXCEPT ![p] = "none"]
    /\ IF ret[p] = "load"
       THEN /\ loaded' = [loaded EXCEPT ![p] = Current(mem[p])]
            /\ pc' = [pc EXCEPT ![p] = "mutate"]
            /\ UNCHANGED res
       ELSE /\ pc' = [pc EXCEPT ![p] = "unlock"]
            /\ res' = [res EXCEPT ![p] = IF res[p] = "none" THEN "ok" ELSE res[p]]
            /\ UNCHANGED loaded
    /\ UNCHANGED <<origin, eval, file, db, matVars, lock, poisoned, cmd, mem, ret, prior, history, faults>>

\* one of the "?" of write_app_data_to_disk returns Err; the NamedTempFile is
\* dropped, which deletes the temp file
WriteFails(p) ==
    /\ pc[p] \in WriteSteps
    /\ faults < MaxFaults
    /\ faults' = faults + 1
    /\ tmp' = [tmp EXCEPT ![p] = "none"]
    /\ Fail(p, "err_write")
    /\ UNCHANGED <<origin, eval, file, db, matVars, disk, lock, poisoned, cmd, mem, ret, prior, loaded,
                   history>>

\* the function returns and _guard is dropped
Release(p) ==
    /\ pc[p] = "unlock"
    /\ lock' = IF lock = p THEN 0 ELSE lock
    /\ pc' = [pc EXCEPT ![p] = "done"]
    /\ UNCHANGED <<origin, eval, file, db, matVars, disk, poisoned, cmd, mem, res, tmp, ret, prior, loaded,
                   history, faults>>

\* the process is killed (power loss, kill -9) while an invocation is running
Crash ==
    /\ faults < MaxFaults
    /\ \E p \in Procs : pc[p] \in CycleSteps
    /\ faults' = faults + 1
    /\ ProcessDies
    /\ UNCHANGED <<origin, eval, file, db, matVars, disk, cmd, mem, res, tmp, ret, prior, loaded, history>>

Next ==
    \/ \E p \in Procs : Issue(p)
    \/ \E p \in Procs : Acquire(p)
    \/ \E p \in Procs : Load(p)
    \/ \E p \in Procs : LoadPanics(p)
    \/ \E p \in Procs : Mutate(p)
    \/ \E p \in Procs : WCreate(p)
    \/ \E p \in Procs : WSerialize(p)
    \/ \E p \in Procs : WSync(p)
    \/ \E p \in Procs : WRemove(p)
    \/ \E p \in Procs : WPersist(p)
    \/ \E p \in Procs : WriteFails(p)
    \/ \E p \in Procs : Release(p)
    \/ Crash

Spec == Init /\ [][Next]_vars


(***************************************************************************)
(* Properties of the document store                                        *)
(***************************************************************************)
InCycle(p) == pc[p] \in CycleSteps

\* C2: an interrupted or failed write leaves the previous document - at every step
\* of write_app_data_to_disk before the rename completes (where a crash or an Err
\* ends the write), the data file still holds the document it held when the write
\* began
C2_PreviousDocumentSurvives ==
    \A p \in Procs :
        (pc[p] \in WriteSteps /\ prior[p].kind = "current") => disk = prior[p]

\* C3: no torn document - the data file is never a partially written document:
\* during a write it is absent, or holds what it held when the write began, or the
\* complete new document
C3_NoTornDocument ==
    /\ disk.kind # "torn"
    /\ \A p \in Procs :
          (pc[p] \in WriteSteps /\ lock = p)
             => disk \in {Absent, prior[p], Current(mem[p])}

\* C3 witness: the serialization is half written (in the temp file) while the data
\* file still holds the complete previous document
C3_Witness ==
    \E p \in Procs :
        /\ pc[p] = "w_sync"
        /\ tmp[p] = "partial"
        /\ ret[p] = "commit"
        /\ disk.kind = "current"
        /\ disk = prior[p]
        /\ disk.doc # mem[p]

\* C4: mutual exclusion - at most one invocation is between acquiring and releasing
\* the lock (loading, running its closure, writing), and it is the lock's holder
C4_MutualExclusion ==
    /\ Cardinality({p \in Procs : InCycle(p)}) <= 1
    /\ \A p \in Procs : InCycle(p) => lock = p

\* C4 witness: one invocation is writing while another waits for the lock
C4_Witness ==
    \E p, q \in Procs :
        /\ p # q
        /\ pc[p] = "w_remove"
        /\ pc[q] = "lock"
        /\ lock = p

\* the document a serial run of the closures in hist leaves, starting from doc
RECURSIVE SerialApply(_, _, _)
SerialApply(doc, hist, u) ==
    IF hist = << >> THEN doc
    ELSE IF Head(hist).op = "restore_from_backup"
         THEN SerialApply(Head(hist).backup, Tail(hist), u)
         ELSE SerialApply(Mutator(doc, Head(hist), today, u).data, Tail(hist),
                          Mutator(doc, Head(hist), today, u).uuid)

\* the document the first load makes of a file
FirstDoc(f) == IF f.kind \in {"current", "legacy"} THEN f.doc ELSE DefaultAppData

\* the mutating invocations
Mutators == {p \in Procs : cmd[p].op \notin ReadOps \cup {"none"}}

\* C5: no lost updates - when every invocation has returned Ok, the persisted
\* document is the one a serial run of the mutating commands leaves (in the order
\* their closures ran)
C5_NoLostUpdates ==
    (\A p \in Procs : pc[p] = "done" /\ res[p] = "ok")
       => /\ Len(history) = Cardinality(Mutators)
          /\ disk = Current(SerialApply(FirstDoc(origin), history, SeedUuid))


\* C5 witness: every invocation returned Ok, at least two of them mutated, and the
\* persisted document differs from the one the behaviour started with
C5_Witness ==
    /\ \A p \in Procs : pc[p] = "done" /\ res[p] = "ok"
    /\ Len(history) >= 2
    /\ \A i \in DOMAIN history : history[i].op # "restore_from_backup"
    /\ disk.doc # FirstDoc(origin)

\* C8: a failed cycle persists nothing - when the closure of a with_app_data_mut
\* cycle has returned Err and the cycle is about to return, the data file is what
\* the cycle's load left
C8_FailedCyclePersistsNothing ==
    \A p \in Procs :
        (pc[p] = "unlock" /\ res[p] = "err_closure") => disk = loaded[p]

\* C8 witness: the closure failed part-way through materialization, with entries
\* already inserted in memory, and the data file is what the load left
C8_Witness ==
    \E p \in Procs :
        /\ pc[p] = "unlock"
        /\ res[p] = "err_closure"
        /\ cmd[p].op = "generate_recurring_attendance"
        /\ EntryKeys(mem[p]) # {}
        /\ EntryKeys(loaded[p].doc) = {}
        /\ disk = loaded[p]

\* C9: after a cycle has failed, for whatever reason, the lock is released and the
\* next command can acquire it
C9_LockUsableAfterFailure ==
    \A p \in Procs :
        (pc[p] = "done" /\ res[p] # "ok") => (lock # p /\ ~poisoned)

\* the kinds of file that neither strict-decode nor decode after the patches
Unrecoverable == {"undecodable", "unmigratable", "hostile"}

\* C32: unrecoverable documents are never replaced - whenever a load meets a file
\* that is there, is not blank and neither strict-decodes nor decodes after the
\* migration patches, the load ends (unless the process is killed) with the cycle
\* failed with the load's error, returned to the caller, and the file is left as
\* it was
C32_UnrecoverableNeverReplaced ==
    [][\A p \in Procs :
          (pc[p] = "load" /\ disk.kind \in Unrecoverable /\ pc'[p] # "load")
          => /\ disk' = disk
             /\ \/ pc'[p] = "dead"
                \/ pc'[p] = "unlock" /\ res'[p] = "err_load"]_vars

\* the part of C32 about the file: a load that meets an unrecoverable file writes
\* nothing, however it ends
UnrecoverableFileKept ==
    [][\A p \in Procs :
          (pc[p] = "load" /\ disk.kind \in Unrecoverable) => disk' = disk]_vars

\* the cycle of p began on a file of one of these kinds and p has not begun the
\* write that follows its closure
LoadedFrom(p, kinds) == ret[p] = "load" /\ prior[p].kind \in kinds

\* C33: default initialization - when a cycle, read or mutate, starts with the file
\* absent or blank, its closure runs on the default document with the default
\* document persisted, and when the cycle ends without an I/O error the file is
\* there and strict-decodes
C33_DefaultInitialization ==
    \A p \in Procs :
       /\ (pc[p] = "mutate" /\ LoadedFrom(p, {"absent", "blank"}))
          => mem[p] = DefaultAppData /\ disk = Current(DefaultAppData)
       /\ (pc[p] = "unlock" /\ res[p] \in {"ok", "err_closure"})
          => disk.kind = "current"
C33_Witness ==
    \E p \in Procs :
       /\ pc[p] = "unlock" /\ res[p] = "ok"
       /\ cmd[p].op \in ReadOps
       /\ LoadedFrom(p, {"blank"})
       /\ disk = Current(DefaultAppData)

\* C34: migration checkpoint - whenever a load takes the migration fallback and
\* succeeds, the migrated document is on disk in the current form before the
\* caller's closure runs, and it still is when a read-only cycle or a cycle whose
\* closure failed ends: the next load strict-decodes it without migrating
C34_MigrationCheckpoint ==
    \A p \in Procs :
       (LoadedFrom(p, {"legacy"}) /\ (pc[p] = "mutate" \/ (pc[p] = "unlock" /\ res[p] # "err_write")))
       => /\ disk = Current(prior[p].doc)
          /\ loaded[p] = disk
          /\ AppDataDecodes(ToJson(disk.doc))
C34_Witness ==
    \E p \in Procs :
       /\ LoadedFrom(p, {"legacy"})
       /\ pc[p] = "unlock"
       /\ res[p] = "err_closure"
       /\ disk = Current(MigratedDoc)
       /\ origin = TextOf(LegacyTree)


(***************************************************************************)
(* FairSpec: the document store under fair scheduling - a thread that can  *)
(* take its next step eventually takes it; faults are not owed             *)
(***************************************************************************)
Fairness ==
    \A p \in Procs :
       /\ WF_vars(Acquire(p))
       /\ WF_vars(Load(p))
       /\ WF_vars(LoadPanics(p))
       /\ WF_vars(Mutate(p))
       /\ WF_vars(WCreate(p))
       /\ WF_vars(WSerialize(p))
       /\ WF_vars(WSync(p))
       /\ WF_vars(WRemove(p))
       /\ WF_vars(WPersist(p))
       /\ WF_vars(Release(p))

FairSpec == Spec /\ Fairness

\* the invocation of p held the lock, has released it and has returned a value
Returned(p) ==
    /\ pc[p] = "done"
    /\ res[p] \in {"ok", "err_load", "err_closure", "err_write"}
    /\ lock # p

\* C39: every command cycle terminates and frees the lock - under fair scheduling
\* every command that waits for the lock eventually acquires it, and returns a
\* value with the lock released (unless the process is killed)
C39_EveryCycleTerminates ==
    \A p \in Procs : pc[p] = "lock" ~> (Returned(p) \/ pc[p] = "dead")

\* the part of C39 that does not depend on what the file holds: an invocation that
\* waits for the lock never holds it, and it eventually ends - with a value, with a
\* panic, with the error of a poisoned mutex, or with the process
EveryCycleEnds ==
    /\ [](\A p \in Procs : pc[p] = "lock" => lock # p)
    /\ \A p \in Procs : pc[p] = "lock" ~> pc[p] \in {"done", "dead"}

\* on a file whose migration does not panic, C39 holds as stated
TerminatesUnlessHostile ==
    \A p \in Procs :
       (pc[p] = "lock" /\ origin.kind # "hostile") ~> (Returned(p) \/ pc[p] = "dead")

(***************************************************************************)
(* LoadSpec: load_app_data_from_disk on the files of older versions.  A    *)
(* file is the JSON text of a document of the current shape with some of   *)
(* the keys that later versions added taken out.                           *)
(***************************************************************************)
MaxLoads == 2        \* loads of one file

LoadDates == {DateStr(MatToday), DateStr(MatToday + 1)}

\* documents of the current shape: two dogs, two days
FullDocs ==
    {[dogs |-> <<[id |-> 1, name |-> "Rex",
                  schedule |-> Descriptor({5}, {}, {}, NoneStr, NoneStr, TRUE)],
                 [id |-> 2, name |-> "Bella",
                  schedule |-> Descriptor({}, {2}, {}, DateStr(MatToday), NoneStr, FALSE)]>>,
      daily_data |->
         (DateStr(MatToday) :>
             [attendance |-> [dogs |-> lg, entries |-> en, types |-> EmptyMap],
              records |-> rc, am_temp |-> NoTime, pm_temp |-> "21"])
         @@ (DateStr(MatToday + 1) :>
             [NewDayData EXCEPT !.attendance.dogs = (2 :> TRUE)]),
      recurring_schedules |-> rs,
      settings |-> [DefaultSettings EXCEPT !.business_phone = "555 0100"]] :
        lg \in {EmptyMap, (1 :> TRUE), (1 :> TRUE) @@ (2 :> FALSE)},
        en \in {EmptyMap,
                (entry_key(1, "Training") :>
                    [dog_id |-> 1, service_type |-> "Training", attending |-> TRUE,
                     drop_off_time |-> "10:00", pick_up_time |-> NoTime, notes |-> NoTime])},
        rc \in {EmptyMap,
                (1 :> [NewDailyRecord EXCEPT !.drop_off_time = "08:15"]),
                (1 :> [NewDailyRecord EXCEPT !.drop_off_time = "08:15",
                                             !.pick_up_time = "17:00"])},
        rs \in {<< >>,
                <<MkSchedule(1, 1, "Daycare", PCustom({5}), DateStr(MatToday), NoneStr,
                             "08:30", NoTime)>>}}

\* what an older version did not write: recurring_schedules, the schedule of some
\* dogs, the entries of some days, business_phone; and what it wrote: a dog's age;
\* scalar: the first dog is not an object
StripChoices ==
    [rs : BOOLEAN, schedule : SUBSET {1, 2}, entries : SUBSET LoadDates, phone : BOOLEAN,
     age : BOOLEAN, scalar : BOOLEAN]

\* the JSON tree t of a document as the older version wrote it
Strip(t, ch) ==
    LET dog(i) ==
            LET d0 == IF i \in ch.schedule THEN DropKey(t.dogs[i], "schedule") ELSE t.dogs[i]
            IN  IF ch.scalar /\ i = 1 THEN JScalar
                ELSE IF ch.age THEN SetKey(d0, "age", 3) ELSE d0
        day(ds) ==
            IF ds \in ch.entries
            THEN SetKey(t.daily_data[ds], "attendance",
                        DropKey(t.daily_data[ds].attendance, "entries"))
            ELSE t.daily_data[ds]
        t1 == [dogs |-> [i \in DOMAIN t.dogs |-> dog(i)],
               daily_data |-> [ds \in DOMAIN t.daily_data |-> day(ds)],
               settings |-> IF ch.phone THEN DropKey(t.settings, "business_phone")
                            ELSE t.settings]
    IN  IF ch.rs THEN t1 ELSE SetKey(t1, "recurring_schedules", t.recurring_schedules)

NotLoaded == [kind |-> "not loaded"]

LoadInit ==
    /\ EvalIdle
    /\ MatIdle
    /\ StoreIdle
    /\ MigIdle
    /\ \E full \in FullDocs, ch \in StripChoices :
          file = [full |-> full, strip |-> ch, tree |-> Strip(ToJson(full), ch),
                  step |-> 0, first |-> NotLoaded, out |-> NotLoaded]

\* load_app_data_from_disk(path) on the file: what it returns, and the file it
\* leaves (the migrated document is written back)
LoadFile ==
    /\ file.step < MaxLoads
    /\ LET out == TextOf(file.tree)
       IN  file' = [file EXCEPT
                      !.step = @ + 1,
                      !.out = out,
                      !.first = IF file.step = 0 THEN out ELSE @,
                      !.tree = IF out.kind = "legacy" THEN ToJson(out.doc) ELSE @]
    /\ UNCHANGED <<evalVars, matVars, storeVars, migVars>>

LoadNext == LoadFile

LoadSpec == LoadInit /\ [][LoadNext]_vars

\* the file lacks recurring_schedules, a dog's schedule descriptor or a day's
\* entries sub-map, and is a document otherwise
Lacking ==
    /\ file.step >= 1
    /\ ~file.strip.scalar
    /\ file.strip.rs \/ file.strip.schedule # {} \/ file.strip.entries # {}

\* one Daycare entry for each dog the day's legacy map marks attending, with the
\* times of the dog's daily record of that day
EntriesOfLegacyMap(day) ==
    LET time(g, field) == IF g \in DOMAIN day.records THEN day.records[g][field] ELSE NoTime
    IN  [k \in {entry_key(g, "Daycare") :
                  g \in {x \in DOMAIN day.attendance.dogs : day.attendance.dogs[x]}} |->
            [dog_id |-> k[1], service_type |-> "Daycare", attending |-> TRUE,
             drop_off_time |-> time(k[1], "drop_off_time"),
             pick_up_time |-> time(k[1], "pick_up_time"),
             notes |-> "Migrated from legacy attendance"]]
NoEntries(day) == EmptyMap

\* the document the file was written from, with what the file lacks filled in:
\* added(day) for the entries of a day that had none
Completed(added(_)) ==
    LET full == file.full
        ch == file.strip
    IN  [dogs |-> [i \in DOMAIN full.dogs |->
                      IF i \in ch.schedule
                      THEN [full.dogs[i] EXCEPT !.schedule = DogScheduleDefault]
                      ELSE full.dogs[i]],
         daily_data |-> [ds \in DOMAIN full.daily_data |->
                           IF ds \in ch.entries
                           THEN [full.daily_data[ds] EXCEPT
                                   !.attendance.entries = added(full.daily_data[ds])]
                           ELSE full.daily_data[ds]],
         recurring_schedules |-> IF ch.rs THEN << >> ELSE full.recurring_schedules,
         settings |-> IF ch.phone THEN [full.settings EXCEPT !.business_phone = ""]
                      ELSE full.settings]

\* C35 as stated: migration adds missing fields as empty/default and keeps the rest
\* - loading a document that lacks recurring_schedules, a dog's schedule descriptor
\* or a day's entries sub-map succeeds, and in the document it yields
\* recurring_schedules is an empty list, every such entries sub-map is present and
\* empty, every such dog has the default descriptor, and every other field of the
\* dogs and the ledger (the legacy map too) is as the file has it
C35_MigrationAddsEmpty ==
    Lacking => /\ file.first.kind \in {"current", "legacy"}
               /\ file.first.doc = Completed(NoEntries)

\* C35, amended: as stated, except that an added entries sub-map holds one Daycare
\* entry (attending, noted "Migrated from legacy attendance", with the drop-off and
\* pick-up times of the dog's daily record of that day) for each dog the day's
\* legacy map marks attending, and is empty only where the legacy map marks none
C35_MigrationAddsFields ==
    Lacking => /\ file.first.kind \in {"current", "legacy"}
               /\ file.first.doc = Completed(EntriesOfLegacyMap)
C35_Witness ==
    /\ Lacking
    /\ file.strip.rs
    /\ file.strip.schedule = {1, 2}
    /\ file.strip.entries = LoadDates
    /\ file.first.kind = "legacy"
    /\ \E k \in DOMAIN file.first.doc.daily_data[DateStr(MatToday)].attendance.entries :
          file.first.doc.daily_data[DateStr(MatToday)].attendance.entries[k].drop_off_time
             = "08:15"
    /\ file.first.doc.daily_data[DateStr(MatToday)].attendance.dogs = (1 :> TRUE) @@ (2 :> FALSE)
    /\ file.first.doc.recurring_schedules = << >>

\* C36: a dog loaded from a document in which it has no schedule descriptor gets an
\* inactive default descriptor: active = false and no weekdays
C36_MissingDescriptorInactive ==
    (file.step >= 1 /\ file.first.kind \in {"current", "legacy"})
    => \A i \in file.strip.schedule :
          LET sd == file.first.doc.dogs[i].schedule
          IN  /\ ~sd.active
              /\ sd.daycare_days = {} /\ sd.training_days = {} /\ sd.boarding_days = {}


(***************************************************************************)
(* MigSpec: run_migrations on one SQLite database, over the restarts of    *)
(* the application                                                         *)
(***************************************************************************)
MaxRuns == 3         \* invocations of run_migrations

\* the statements of the migration's up text, in their order; each is executed and
\* committed on its own
UpStatements ==
    <<[kind |-> "table", name |-> "dogs"],
      [kind |-> "table", name |-> "daily_records"],
      [kind |-> "table", name |-> "day_data"],
      [kind |-> "table", name |-> "settings"],
      [kind |-> "table", name |-> "sync_operations"],
      [kind |-> "index", name |-> "idx_dogs_active"],
      [kind |-> "index", name |-> "idx_dogs_owner"],
      [kind |-> "index", name |-> "idx_daily_records_date"],
      [kind |-> "index", name |-> "idx_daily_records_dog_date"],
      [kind |-> "index", name |-> "idx_day_data_date"],
      [kind |-> "index", name |-> "idx_sync_operations_status"],
      [kind |-> "index", name |-> "idx_sync_operations_entity"],
      [kind |-> "row", name |-> "settings.default"]>>

get_migrations == <<[version |-> 1, up |-> UpStatements]>>

StatementIds == {<<m, n>> : m \in DOMAIN get_migrations, n \in DOMAIN UpStatements}

\* SELECT COALESCE(MAX(version), 0) FROM migrations
MaxVersion(versions) ==
    IF versions = {} THEN 0 ELSE CHOOSE v \in versions : \A w \in versions : w <= v

MigInit ==
    /\ EvalIdle
    /\ MatIdle
    /\ StoreIdle
    /\ LoadIdle
    /\ db = [pc |-> "idle", runs |-> 0, result |-> "none",
             migrations_table |-> FALSE, versions |-> {}, objects |-> {},
             current_version |-> 0, migration |-> 1, statement |-> 1,
             executed |-> [x \in StatementIds |-> 0], applied |-> << >>]

MigUnchanged == UNCHANGED <<evalVars, matVars, storeVars, loadVars>>

\* the application starts: Database::new calls initialize, which calls run_migrations
Initialize ==
    /\ db.pc = "idle"
    /\ db.runs < MaxRuns
    /\ db' = [db EXCEPT !.pc = "create", !.runs = @ + 1, !.result = "running"]
    /\ MigUnchanged

\* CREATE TABLE IF NOT EXISTS migrations
CreateMigrationsTable ==
    /\ db.pc = "create"
    /\ db' = [db EXCEPT !.pc = "select", !.migrations_table = TRUE]
    /\ MigUnchanged

\* "let current_version = .."
SelectVersion ==
    /\ db.pc = "select"
    /\ db' = [db EXCEPT !.pc = "for", !.current_version = MaxVersion(db.versions),
                        !.migration = 1]
    /\ MigUnchanged

\* "for migration in migrations { if migration.version > current_version {"
NextMigration ==
    /\ db.pc = "for"
    /\ db' = IF db.migration > Len(get_migrations)
             THEN [db EXCEPT !.pc = "idle", !.result = "ok"]
             ELSE IF get_migrations[db.migration].version > db.current_version
             THEN [db EXCEPT !.pc = "up", !.statement = 1]
             ELSE [db EXCEPT !.migration = @ + 1]
    /\ MigUnchanged

\* sqlx::query(&migration.up).execute(pool).await?: the next statement of the text;
\* CREATE of a table or index that exists, and INSERT of a row whose key exists,
\* are errors, which "?" returns
ExecuteStatement ==
    /\ db.pc = "up"
    /\ LET up == get_migrations[db.migration].up
           st == up[db.statement]
       IN  db' = IF st.name \in db.objects
                 THEN [db EXCEPT !.pc = "idle", !.result = "err"]
                 ELSE [db EXCEPT
                         !.objects = @ \cup {st.name},
                         !.executed[<<db.migration, db.statement>>] = @ + 1,
                         !.statement = @ + 1,
                         !.pc = IF db.statement = Len(up) THEN "record" ELSE "up"]
    /\ MigUnchanged

\* INSERT INTO migrations (version, description) VALUES (?, ?); version is UNIQUE
RecordMigration ==
    /\ db.pc = "record"
    /\ LET version == get_migrations[db.migration].version
       IN  db' = IF version \in db.versions
                 THEN [db EXCEPT !.pc = "idle", !.result = "err"]
                 ELSE [db EXCEPT !.versions = @ \cup {version},
                                 !.applied = Append(@, version),
                                 !.migration = @ + 1,
                                 !.pc = "for"]
    /\ MigUnchanged

\* the process is killed while run_migrations is running: what is committed stays
Interrupt ==
    /\ db.pc # "idle"
    /\ db' = [db EXCEPT !.pc = "idle", !.result = "killed"]
    /\ MigUnchanged

MigNext ==
    \/ Initialize
    \/ CreateMigrationsTable
    \/ SelectVersion
    \/ NextMigration
    \/ ExecuteStatement
    \/ RecordMigration
    \/ Interrupt

MigSpec == MigInit /\ [][MigNext]_vars

\* C40: SQL schema migrations run exactly once - over any sequence of run_migrations
\* invocations on the same database, one interrupted between executing a
\* migration's statements and recording its version included, each statement of a
\* migration is executed at most once, the versions are applied in ascending order,
\* and an invocation that completes, completes successfully with every version
\* recorded
C40_MigrationsRunOnce ==
    /\ \A x \in StatementIds : db.executed[x] <= 1
    /\ \A i, j \in DOMAIN db.applied : i < j => db.applied[i] < db.applied[j]
    /\ (db.pc = "idle" /\ db.result \in {"ok", "err"})
       => /\ db.result = "ok"
          /\ db.versions = {get_migrations[m].version : m \in DOMAIN get_migrations}

\* the parts of C40 that hold: no statement is executed twice, versions are applied
\* in ascending order, and an invocation that returns Ok leaves every version
\* recorded
MigrationsNeverRepeated ==
    /\ \A x \in StatementIds : db.executed[x] <= 1
    /\ \A i, j \in DOMAIN db.applied : i < j => db.applied[i] < db.applied[j]
    /\ (db.pc = "idle" /\ db.result = "ok")
       => db.versions = {get_migrations[m].version : m \in DOMAIN get_migrations}

====
